---- MODULE Spec2Model ----
(***************************************************************************)
(* aral: conversation persistence (message_store.py, persistence.py,       *)
(* persistent_store.py) and the live-update broadcaster (ui/server.py).    *)
(*                                                                         *)
(* A storage directory is a map from paths to file texts.  A file text is  *)
(* a sequence of JSON tokens, so a truncated or foreign text is a value    *)
(* json_load rejects.  Not modelled: created_at, metadata and the ids of   *)
(* messages and actions (no operation of the store reads them), and        *)
(* MemoryStorageBackend.data.  Directory listing order and dict key order  *)
(* are replaced by one canonical order (SetToSeq).                         *)
(***************************************************************************)
EXTENDS Integers, Sequences, FiniteSets, TLC

VARIABLES
    fs,             \* storage directory: path -> file text
    conversations,  \* MessageStore.conversations: id -> Conversation
    kind,           \* class of the live store: "file" or "persistent"
    uuids,          \* number of conversation ids drawn from uuid.uuid4()
    saved,          \* history: ids passed to a backend's save_conversation
    writes,         \* number of writes made into the directory from outside
    last,           \* history: the last call, its arguments and its outcome
    wpc,            \* save_conversation in steps: the statement the writer is at
    wjob,           \* save_conversation in steps: the conversation being saved
    nsaves,         \* save_conversation in steps: calls begun
    seen,           \* what a reader last found at a conversation's final path
    published,      \* history: (id, text) pairs renamed onto a final path
    active_connections, \* UIServer.active_connections: key -> set of websockets
    update_queues,  \* UIServer.update_queues: key -> queue of messages
    ws_state,       \* where each websocket's websocket_endpoint call is
    ws_conversation_id, \* the conversation_id local of each websocket_endpoint call
    sent,           \* history: what send_json was given, per websocket, in order
    calls,          \* history: the send_update calls, in order
    request,        \* the POST /api/message request or on_message call under way
    writers         \* store objects that save one conversation in steps, side by side

storeVars == <<conversations, kind, uuids, saved, writes, last>>
saveVars == <<wpc, wjob, nsaves, seen, published, writers>>
liveVars == <<active_connections, update_queues, ws_state, ws_conversation_id, sent, calls,
              request>>
vars == <<fs, conversations, kind, uuids, saved, writes, last,
          wpc, wjob, nsaves, seen, published,
          active_connections, update_queues, ws_state, ws_conversation_id, sent, calls,
          request, writers>>

(***************************************************************************)
(* Bounds and input sets                                                   *)
(***************************************************************************)
MaxItems == 2        \* messages and actions held by the store, all conversations
MaxWrites == 1       \* writes into the directory from outside
MaxSaves == 2        \* save_conversation calls followed statement by statement
MaxUpdates == 2      \* send_update calls

None == "<None>"
ExplicitIds == {"a"}
UuidDraws == {1}     \* the draws of uuid.uuid4() a run may make
IdArgs == ExplicitIds \cup {""}
TitleArgs == {None}
MessageArgs == {<<"hi", "user">>, <<"yo", "assistant">>}   \* (content, role)
ActionArgs == {<<"button_click", "submit">>}               \* (action_type, data)

Falsy(x) == x = None \/ x = ""

Min(a, b) == IF a < b THEN a ELSE b

Range(s) == {s[i] : i \in DOMAIN s}

Put(f, k, v) == [x \in DOMAIN f \cup {k} |-> IF x = k THEN v ELSE f[x]]

RECURSIVE SetToSeq(_)
SetToSeq(S) ==
    IF S = {} THEN <<>>
    ELSE LET x == CHOOSE y \in S : TRUE IN <<x>> \o SetToSeq(S \ {x})

IsPrefix(s, t) == Len(s) <= Len(t) /\ SubSeq(t, 1, Len(s)) = s

(***************************************************************************)
(* Entities (message_store.py)                                             *)
(***************************************************************************)
Message(content, role) == [content |-> content, role |-> role]

ConversationAction(action_type, data) == [action_type |-> action_type, data |-> data]

\* str(uuid.uuid4()): the n-th draw, distinct from every id a caller passes
\* and, from its first character on, from every other draw
uuid4(n) == ToString(n) \o "f1c2a9e-4"

\* Conversation.__init__: an absent or empty title becomes a label of the id
Conversation(id, title, messages, actions) ==
    [id |-> id,
     title |-> IF Falsy(title)
               THEN "Conversation " \o SubSeq(id, 1, Min(8, Len(id)))
               ELSE title,
     messages |-> messages,
     actions |-> actions]

(***************************************************************************)
(* JSON texts                                                              *)
(***************************************************************************)
Tok(k, v, w) == [k |-> k, v |-> v, w |-> w]
LBRACE == Tok("{", "", "")
RBRACE == Tok("}", "", "")
LBRACK == Tok("[", "", "")
RBRACK == Tok("]", "", "")

\* what json.load yields: the decoded value, or the JSONDecodeError it raises
Decoded(v) == [ok |-> TRUE, value |-> v]
JSONDecodeError == [ok |-> FALSE, value |-> "JSONDecodeError"]

RECURSIVE CountRun(_, _, _)
\* number of consecutive tokens of kind k in text t from position i on
CountRun(t, i, k) ==
    IF i <= Len(t) /\ t[i].k = k THEN 1 + CountRun(t, i + 1, k) ELSE 0

\* json.dump(conversation.model_dump(), f, cls=DateTimeEncoder)
json_dump_conversation(conv) ==
    <<LBRACE, Tok("id", conv.id, ""), Tok("title", conv.title, ""), LBRACK>>
    \o [i \in 1..Len(conv.messages) |->
            Tok("message", conv.messages[i].content, conv.messages[i].role)]
    \o <<RBRACK, LBRACK>>
    \o [i \in 1..Len(conv.actions) |->
            Tok("action", conv.actions[i].action_type, conv.actions[i].data)]
    \o <<RBRACK, RBRACE>>

\* json.load(f) of a conversation file: the dict, or JSONDecodeError
json_load_conversation(t) ==
    LET n == CountRun(t, 5, "message")
        m == CountRun(t, 7 + n, "action")
    IN  IF /\ Len(t) = 8 + n + m
           /\ t[1] = LBRACE /\ t[2].k = "id" /\ t[3].k = "title" /\ t[4] = LBRACK
           /\ t[5 + n] = RBRACK /\ t[6 + n] = LBRACK
           /\ t[7 + n + m] = RBRACK /\ t[8 + n + m] = RBRACE
        THEN Decoded([id |-> t[2].v,
                      title |-> t[3].v,
                      messages |-> [i \in 1..n |-> Message(t[4 + i].v, t[4 + i].w)],
                      actions |-> [i \in 1..m |->
                                      ConversationAction(t[6 + n + i].v, t[6 + n + i].w)]])
        ELSE JSONDecodeError

\* json.dump({"conversation_ids": ids}, f)
json_dump_index(ids) ==
    <<LBRACE, LBRACK>> \o [i \in 1..Len(ids) |-> Tok("conversation_id", ids[i], "")]
    \o <<RBRACK, RBRACE>>

\* json.load(f) of the index file: the list under "conversation_ids", or JSONDecodeError
json_load_index(t) ==
    LET n == CountRun(t, 3, "conversation_id")
    IN  IF /\ Len(t) = 4 + n
           /\ t[1] = LBRACE /\ t[2] = LBRACK
           /\ t[3 + n] = RBRACK /\ t[4 + n] = RBRACE
        THEN Decoded([i \in 1..n |-> t[2 + i].v])
        ELSE JSONDecodeError

(***************************************************************************)
(* Paths (pathlib)                                                         *)
(***************************************************************************)
Path(dir, name, suffix) == [dir |-> dir, name |-> name, suffix |-> suffix]

\* self.save_dir / "message_store.json"
store_file == Path("", "message_store", ".json")

\* self.conversations_dir / f"{conversation_id}.json"
conv_file(id) == Path("conversations", id, ".json")

with_suffix(p, s) == [p EXCEPT !.suffix = s]

exists(f, p) == p \in DOMAIN f

\* shutil.move(src, dst) inside one directory: os.rename
move(f, src, dst) ==
    IF src = dst THEN f
    ELSE [p \in (DOMAIN f \cup {dst}) \ {src} |-> IF p = dst THEN f[src] ELSE f[p]]

\* open(p, 'w'): the file exists and is empty
open_w(f, p) == Put(f, p, <<>>)

\* one more piece of text reaches the open file p
write_next(f, p, text) == Put(f, p, Append(f[p], text[Len(f[p]) + 1]))

save_temp_file_InPlace(conversation_id) == conv_file(conversation_id)

\* temp_file = conv_file.with_suffix('.tmp') in save_conversation
save_temp_file(conversation_id) == with_suffix(conv_file(conversation_id), ".tmp")

\* temp_file = self.store_file.with_suffix('.tmp')
index_temp_file == with_suffix(store_file, ".tmp")

\* with open(p, 'w') as f: json.dump(...), from open to close
write_file(f, p, text) == Put(f, p, text)

(***************************************************************************)
(* FileStorageBackend (message_store.py) and JsonFileStorage               *)
(* (persistence.py).  Every operator takes the directory f and yields the  *)
(* directory the call leaves behind, or the value the call returns.        *)
(***************************************************************************)
NoneResult == [none |-> TRUE]

Returned(v) == [raised |-> FALSE, value |-> v]
Raised(e) == [raised |-> TRUE, value |-> [error |-> e]]

initialize_Always(f) == write_file(f, store_file, json_dump_index(<<>>))

\* FileStorageBackend.initialize: the index is written only when it is missing
FileStorageBackend_initialize(f) ==
    IF ~exists(f, store_file)
    THEN write_file(f, store_file, json_dump_index(<<>>))
    ELSE f

\* JsonFileStorage.initialize
JsonFileStorage_initialize(f) ==
    IF ~exists(f, store_file)
    THEN write_file(f, store_file, json_dump_index(<<>>))
    ELSE f

\* _update_store_index, shared text of both classes
update_store_index(f, conversation_id) ==
    IF ~exists(f, store_file)
    THEN write_file(f, store_file, json_dump_index(<<conversation_id>>))
    ELSE LET store_data == json_load_index(f[store_file])
             temp_file == index_temp_file
         IN  IF ~store_data.ok
             THEN f
             ELSE IF conversation_id \in Range(store_data.value)
             THEN f
             ELSE move(write_file(f, temp_file,
                                  json_dump_index(Append(store_data.value, conversation_id))),
                       temp_file, store_file)

\* FileStorageBackend._update_store_index
FileStorageBackend_update_store_index(f, conversation_id) ==
    update_store_index(f, conversation_id)

\* JsonFileStorage._update_store_index
JsonFileStorage_update_store_index(f, conversation_id) ==
    update_store_index(f, conversation_id)

\* FileStorageBackend.save_conversation: temp file, rename, index
FileStorageBackend_save_conversation(f, conversation_id, conversation_data) ==
    LET temp_file == save_temp_file(conversation_id)
        written == write_file(f, temp_file, json_dump_conversation(conversation_data))
    IN  FileStorageBackend_update_store_index(
            move(written, temp_file, conv_file(conversation_id)), conversation_id)

save_conversation_IndexOnly(f, conversation) ==
    JsonFileStorage_update_store_index(f, conversation.id)

\* JsonFileStorage.save_conversation
JsonFileStorage_save_conversation(f, conversation) ==
    LET temp_file == save_temp_file(conversation.id)
        written == write_file(f, temp_file, json_dump_conversation(conversation))
    IN  JsonFileStorage_update_store_index(
            move(written, temp_file, conv_file(conversation.id)), conversation.id)

load_conversation_Uncaught(f, conversation_id) ==
    IF ~exists(f, conv_file(conversation_id))
    THEN Returned(NoneResult)
    ELSE LET conv_data == json_load_conversation(f[conv_file(conversation_id)])
         IN  IF ~conv_data.ok THEN Raised(conv_data.value)
             ELSE Returned(conv_data.value)

\* FileStorageBackend.load_conversation: the dict, or None when the file is
\* missing or json.load raises JSONDecodeError
FileStorageBackend_load_conversation(f, conversation_id) ==
    IF ~exists(f, conv_file(conversation_id))
    THEN Returned(NoneResult)
    ELSE LET conv_data == json_load_conversation(f[conv_file(conversation_id)])
         IN  IF ~conv_data.ok THEN Returned(NoneResult)
             ELSE Returned(conv_data.value)

\* load_conversation of JsonFileStorage without its except clause
load_conversation_Unguarded(f, conversation_id) ==
    IF ~exists(f, conv_file(conversation_id))
    THEN Returned(NoneResult)
    ELSE LET conv_data == json_load_conversation(f[conv_file(conversation_id)])
         IN  IF ~conv_data.ok THEN Raised(conv_data.value)
             ELSE Returned(Conversation(conv_data.value.id, conv_data.value.title,
                                        conv_data.value.messages, conv_data.value.actions))

\* JsonFileStorage.load_conversation: Conversation(**conv_data), or None
JsonFileStorage_load_conversation(f, conversation_id) ==
    IF ~exists(f, conv_file(conversation_id))
    THEN Returned(NoneResult)
    ELSE LET conv_data == json_load_conversation(f[conv_file(conversation_id)])
         IN  IF ~conv_data.ok THEN Returned(NoneResult)
             ELSE Returned(Conversation(conv_data.value.id, conv_data.value.title,
                                        conv_data.value.messages, conv_data.value.actions))

list_conversation_ids_FromIndex(f) ==
    IF exists(f, store_file) /\ json_load_index(f[store_file]).ok
    THEN Range(json_load_index(f[store_file]).value)
    ELSE {}

\* FileStorageBackend.list_conversation_ids: stems of conversations/*.json
FileStorageBackend_list_conversation_ids(f) ==
    {p.name : p \in {q \in DOMAIN f : q.dir = "conversations" /\ q.suffix = ".json"}}

\* JsonFileStorage.list_conversation_ids
JsonFileStorage_list_conversation_ids(f) ==
    {p.name : p \in {q \in DOMAIN f : q.dir = "conversations" /\ q.suffix = ".json"}}

\* the conversations a sequence of ids loads: id -> loaded value, None skipped
LoadEach(ids, load(_)) ==
    LET found == {id \in ids : load(id).value # NoneResult}
    IN  [id \in found |-> load(id).value]

\* an exception leaves the loop over ids (the caller's except clause takes it)
AnyRaised(ids, load(_)) == \E id \in ids : load(id).raised

\* FileStorageBackend.load_store: store_data["conversations"]
FileStorageBackend_load_store(f) ==
    IF ~exists(f, store_file) THEN <<>>
    ELSE LET store_index == json_load_index(f[store_file])
             load(id) == FileStorageBackend_load_conversation(f, id)
             files == FileStorageBackend_list_conversation_ids(f)
         IN  IF ~store_index.ok THEN <<>>
             ELSE IF AnyRaised(Range(store_index.value), load) THEN <<>>
             ELSE LET by_index == LoadEach(Range(store_index.value), load)
                  IN  IF DOMAIN by_index # {} THEN by_index
                      ELSE IF AnyRaised(files, load) THEN <<>>
                      ELSE LoadEach(files, load)

RECURSIVE SaveAll(_, _, _)
\* for conv_id, conversation in store.conversations.items(): save_conversation
SaveAll(f, convs, ids) ==
    IF ids = <<>> THEN f
    ELSE SaveAll(JsonFileStorage_save_conversation(f, convs[Head(ids)]), convs, Tail(ids))

save_store_KeepIndex(f, convs) == SaveAll(f, convs, SetToSeq(DOMAIN convs))

\* JsonFileStorage.save_store: the index is replaced by the store's keys,
\* then every conversation of the store is saved
JsonFileStorage_save_store(f, convs) ==
    LET temp_file == index_temp_file
        keys == SetToSeq(DOMAIN convs)
    IN  SaveAll(move(write_file(f, temp_file, json_dump_index(keys)), temp_file, store_file),
                convs, keys)

\* JsonFileStorage.load_store: the conversations of the returned store (none: it
\* returned None),
\* the directory it leaves, and the ids it saved again
JsonFileStorage_load_store(f) ==
    IF ~exists(f, store_file)
    THEN [none |-> TRUE, store |-> <<>>, fs |-> f, resaved |-> {}]
    ELSE LET store_data == json_load_index(f[store_file])
             load(id) == JsonFileStorage_load_conversation(f, id)
             files == JsonFileStorage_list_conversation_ids(f)
         IN  IF ~store_data.ok
             THEN [none |-> TRUE, store |-> <<>>, fs |-> f, resaved |-> {}]
             ELSE IF AnyRaised(Range(store_data.value), load)
             THEN [none |-> TRUE, store |-> <<>>, fs |-> f, resaved |-> {}]
             ELSE LET by_index == LoadEach(Range(store_data.value), load)
                      by_files == LoadEach(files, load)
                  IN  IF DOMAIN by_index # {}
                      THEN [none |-> FALSE, store |-> by_index, fs |-> f, resaved |-> {}]
                      ELSE IF AnyRaised(files, load)
                      THEN [none |-> TRUE, store |-> <<>>, fs |-> f, resaved |-> {}]
                      ELSE IF DOMAIN by_files # {}
                      THEN [none |-> FALSE, store |-> by_files,
                            fs |-> JsonFileStorage_save_store(f, by_files),
                            resaved |-> {by_files[id].id : id \in DOMAIN by_files}]
                      ELSE [none |-> FALSE, store |-> by_files, fs |-> f, resaved |-> {}]

(***************************************************************************)
(* MessageStore (message_store.py) and PersistentMessageStore              *)
(* (persistent_store.py).  A store state st is the record                  *)
(* [c |-> conversations, f |-> directory, u |-> uuid draws, s |-> saved];  *)
(* k is the class of the store: "file" is MessageStore(save_dir), whose    *)
(* backend is a FileStorageBackend, "persistent" is PersistentMessageStore *)
(* over a JsonFileStorage, whose own backend is the in-memory one.         *)
(***************************************************************************)
\* MessageStore._save_conversation: backend.save_conversation(id, model_dump())
MessageStore_save_conversation(st, k, conversation) ==
    IF k = "file"
    THEN [st EXCEPT !.f = FileStorageBackend_save_conversation(st.f, conversation.id, conversation),
                    !.s = st.s \cup {conversation.id}]
    ELSE st

\* the provider call PersistentMessageStore adds after the inherited method
provider_save_conversation(st, k, conversation) ==
    IF k = "persistent"
    THEN [st EXCEPT !.f = JsonFileStorage_save_conversation(st.f, conversation),
                    !.s = st.s \cup {conversation.id}]
    ELSE st

\* create_conversation(title, id): [st |-> the store afterwards, id |-> the id
\* of the conversation returned]
create_conversation(st, k, title, id) ==
    LET draws == Falsy(id)
        cid == IF draws THEN uuid4(st.u + 1) ELSE id
        conversation == Conversation(cid, title, <<>>, <<>>)
        st1 == [st EXCEPT !.c = Put(st.c, cid, conversation),
                          !.u = IF draws THEN st.u + 1 ELSE st.u]
    IN  [st |-> provider_save_conversation(
                    MessageStore_save_conversation(st1, k, conversation), k, conversation),
         id |-> cid]

\* the get-or-create both appends start with
get_or_create(st, k, conversation_id) ==
    IF conversation_id \in DOMAIN st.c
    THEN [st |-> st, id |-> conversation_id]
    ELSE create_conversation(st, k, None, conversation_id)

\* the tail of PersistentMessageStore.add_message / add_action:
\* conversation = self.get_conversation(args[0]); saved when it is found
provider_save_found(st, k, conversation_id) ==
    IF k = "persistent" /\ conversation_id \in DOMAIN st.c
    THEN provider_save_conversation(st, k, st.c[conversation_id])
    ELSE st

add_message_NoSave(st, k, conversation_id, content, role) ==
    LET got == get_or_create(st, k, conversation_id)
        conversation == [got.st.c[got.id] EXCEPT
                            !.messages = Append(@, Message(content, role))]
    IN  [st |-> [got.st EXCEPT !.c = Put(got.st.c, got.id, conversation)], id |-> got.id]

\* add_message(conversation_id, content, role)
add_message(st, k, conversation_id, content, role) ==
    LET got == get_or_create(st, k, conversation_id)
        conversation == [got.st.c[got.id] EXCEPT
                            !.messages = Append(@, Message(content, role))]
        st1 == [got.st EXCEPT !.c = Put(got.st.c, got.id, conversation)]
    IN  [st |-> provider_save_found(
                    MessageStore_save_conversation(st1, k, conversation), k, conversation_id),
         id |-> got.id]

add_action_NoSave(st, k, conversation_id, action_type, data) ==
    LET got == get_or_create(st, k, conversation_id)
        conversation == [got.st.c[got.id] EXCEPT
                            !.actions = Append(@, ConversationAction(action_type, data))]
    IN  [st |-> [got.st EXCEPT !.c = Put(got.st.c, got.id, conversation)], id |-> got.id]

\* add_action(conversation_id, action_type, data)
add_action(st, k, conversation_id, action_type, data) ==
    LET got == get_or_create(st, k, conversation_id)
        conversation == [got.st.c[got.id] EXCEPT
                            !.actions = Append(@, ConversationAction(action_type, data))]
        st1 == [got.st EXCEPT !.c = Put(got.st.c, got.id, conversation)]
    IN  [st |-> provider_save_found(
                    MessageStore_save_conversation(st1, k, conversation), k, conversation_id),
         id |-> got.id]

\* MessageStore._load_from_backend: Conversation(**conv_data) per loaded entry
load_from_backend(loaded) ==
    [id \in DOMAIN loaded |->
        Conversation(loaded[id].id, loaded[id].title, loaded[id].messages, loaded[id].actions)]

\* MessageStore(save_dir=...): backend.initialize(), then _load_from_backend()
MessageStore_init(st) ==
    LET f1 == FileStorageBackend_initialize(st.f)
    IN  [st EXCEPT !.f = f1, !.c = load_from_backend(FileStorageBackend_load_store(f1))]

\* PersistentMessageStore(provider) followed by initialize()
PersistentMessageStore_initialize(st) ==
    LET f1 == JsonFileStorage_initialize(st.f)
        loaded_store == JsonFileStorage_load_store(f1)
    IN  [st EXCEPT !.f = loaded_store.fs,
                   !.c = IF loaded_store.none THEN <<>> ELSE loaded_store.store,
                   !.s = st.s \cup loaded_store.resaved]

\* a store of class k constructed over the directory
construct(st, k) ==
    IF k = "file" THEN MessageStore_init(st) ELSE PersistentMessageStore_initialize(st)

(***************************************************************************)
(* Store operations as actions                                             *)
(***************************************************************************)
St == [c |-> conversations, f |-> fs, u |-> uuids, s |-> saved]

Apply(st) ==
    /\ conversations' = st.c
    /\ fs' = st.f
    /\ uuids' = st.u
    /\ saved' = st.s

\* the last call: its name, the id it was given, what it returned
Call(op, id, ret) == [op |-> op, id |-> id, ret |-> ret]

\* ids a caller can pass: its own, the empty string, and generated ones it was handed
KnownIds == IdArgs \cup {uuid4(n) : n \in 1..uuids}

CanDraw(id) == Falsy(id) => (uuids + 1) \in UuidDraws

RECURSIVE Sum(_, _)
Sum(f, S) == IF S = {} THEN 0
             ELSE LET x == CHOOSE y \in S : TRUE IN f[x] + Sum(f, S \ {x})

\* messages and actions held in memory
Items(convs) ==
    Sum([id \in DOMAIN convs |-> Len(convs[id].messages) + Len(convs[id].actions)],
        DOMAIN convs)

\* a new store object of class k is constructed over the directory
Construct(k) ==
    /\ kind' = k
    /\ Apply(construct(St, k))
    /\ UNCHANGED <<writes, saveVars, liveVars>>
    /\ last' = Call("construct", "", NoneResult)

CreateConversation(title, id) ==
    /\ CanDraw(id)
    /\ LET r == create_conversation(St, kind, title, id)
       IN  /\ Apply(r.st)
           /\ last' = Call("create_conversation", "", NoneResult)
    /\ UNCHANGED <<kind, writes, saveVars, liveVars>>

AddMessage(id, content, role) ==
    /\ Items(conversations) < MaxItems
    /\ id \notin DOMAIN conversations => CanDraw(id)
    /\ LET r == add_message(St, kind, id, content, role)
       IN  /\ Apply(r.st)
           /\ last' = Call("add_message", "", NoneResult)
    /\ UNCHANGED <<kind, writes, saveVars, liveVars>>

AddAction(id, action_type, data) ==
    /\ Items(conversations) < MaxItems
    /\ id \notin DOMAIN conversations => CanDraw(id)
    /\ LET r == add_action(St, kind, id, action_type, data)
       IN  /\ Apply(r.st)
           /\ last' = Call("add_action", "", NoneResult)
    /\ UNCHANGED <<kind, writes, saveVars, liveVars>>

\* load_conversation(id) on a storage object of class k over the directory
LoadConversation(k, id) ==
    /\ last' = Call("load_conversation", id,
                    IF k = "file" THEN FileStorageBackend_load_conversation(fs, id)
                    ELSE JsonFileStorage_load_conversation(fs, id))
    /\ UNCHANGED <<fs, conversations, kind, uuids, saved, writes, saveVars, liveVars>>

\* list_conversation_ids() on a new storage object of class k over the directory
ListConversationIds(k) ==
    /\ last' = Call("list_conversation_ids", "",
                    Returned(IF k = "file" THEN FileStorageBackend_list_conversation_ids(fs)
                             ELSE JsonFileStorage_list_conversation_ids(fs)))
    /\ UNCHANGED <<fs, conversations, kind, uuids, saved, writes, saveVars, liveVars>>

\* initialize() called again on a storage object of class k
Initialize(k) ==
    /\ fs' = IF k = "file" THEN FileStorageBackend_initialize(fs)
             ELSE JsonFileStorage_initialize(fs)
    /\ last' = Call("initialize", "", NoneResult)
    /\ UNCHANGED <<conversations, kind, uuids, saved, writes, saveVars, liveVars>>

(***************************************************************************)
(* The environment: another program writes into the storage directory      *)
(***************************************************************************)
MalformedTexts == {<<LBRACE>>}

\* malformed JSON written directly into an existing conversation file
CorruptConversationFile(id, text) ==
    /\ writes < MaxWrites
    /\ exists(fs, conv_file(id))
    /\ fs' = write_file(fs, conv_file(id), text)
    /\ last' = Call("write", "", NoneResult)
    /\ writes' = writes + 1
    /\ UNCHANGED <<conversations, kind, uuids, saved, saveVars, liveVars>>

\* the index file is overwritten with malformed JSON
CorruptIndex(text) ==
    /\ writes < MaxWrites
    /\ exists(fs, store_file)
    /\ fs' = write_file(fs, store_file, text)
    /\ last' = Call("write", "", NoneResult)
    /\ writes' = writes + 1
    /\ UNCHANGED <<conversations, kind, uuids, saved, saveVars, liveVars>>

\* the index file is removed
RemoveIndex ==
    /\ writes < MaxWrites
    /\ exists(fs, store_file)
    /\ fs' = [p \in DOMAIN fs \ {store_file} |-> fs[p]]
    /\ last' = Call("write", "", NoneResult)
    /\ writes' = writes + 1
    /\ UNCHANGED <<conversations, kind, uuids, saved, saveVars, liveVars>>

(***************************************************************************)
(* Specifications                                                          *)
(***************************************************************************)
Kinds == {"file", "persistent"}

\* websockets that may connect
WebSockets == {"w1", "w2"}

\* store objects over one directory, each in a process of its own
Writers == {"s1", "s2"}

\* UIServer.__init__: one key, 'default', in both dicts; no websocket yet
LiveIdle ==
    /\ active_connections = [k \in {"default"} |-> {}]
    /\ update_queues = [k \in {"default"} |-> <<>>]
    /\ ws_state = [w \in WebSockets |-> "new"]
    /\ ws_conversation_id = [w \in WebSockets |-> None]
    /\ sent = [w \in WebSockets |-> <<>>]
    /\ calls = <<>>
    /\ request = [pc |-> "idle", via |-> "", conversation_id |-> "", message |-> ""]

\* no save_conversation is being followed, no reader has read
SaveIdle ==
    /\ wpc = "idle"
    /\ wjob = Conversation("a", None, <<>>, <<>>)
    /\ nsaves = 0
    /\ seen = [id |-> "", exists |-> FALSE, text |-> <<>>]
    /\ published = {}
    /\ writers = [s \in Writers |->
                    [pc |-> "idle", conv |-> Conversation("a", None, <<>>, <<>>),
                     off |-> 0, at |-> "closed"]]

\* a store of either class constructed over an empty directory
StoreInit ==
    /\ kind \in Kinds
    /\ fs = construct([c |-> <<>>, f |-> <<>>, u |-> 0, s |-> {}], kind).f
    /\ conversations = <<>>
    /\ uuids = 0
    /\ saved = {}
    /\ writes = 0
    /\ last = Call("construct", "", NoneResult)
    /\ SaveIdle
    /\ LiveIdle

StoreNext ==
    \/ \E k \in Kinds : Construct(k)
    \/ \E title \in TitleArgs, id \in KnownIds : CreateConversation(title, id)
    \/ \E id \in KnownIds, m \in MessageArgs : AddMessage(id, m[1], m[2])
    \/ \E id \in KnownIds, a \in ActionArgs : AddAction(id, a[1], a[2])
    \/ \E k \in Kinds, id \in KnownIds : LoadConversation(k, id)
    \/ \E k \in Kinds : ListConversationIds(k)
    \/ \E k \in Kinds : Initialize(k)

\* the directory is written by the stores alone
Spec == StoreInit /\ [][StoreNext]_vars

\* the directory is also written from outside
SpecExt == StoreInit /\ [][
    \/ StoreNext
    \/ \E id \in KnownIds, text \in MalformedTexts : CorruptConversationFile(id, text)
    \/ \E text \in MalformedTexts : CorruptIndex(text)
    \/ RemoveIndex
    ]_vars

(***************************************************************************)
(* save_conversation statement by statement, beside a reader               *)
(*                                                                         *)
(* One writer runs save_conversation of FileStorageBackend (the text of    *)
(* JsonFileStorage.save_conversation is the same, statement for            *)
(* statement); json.dump reaches the open file one piece at a time.  A     *)
(* reader in another thread or process may open the final path between any *)
(* two statements.  shutil.move inside one directory is os.rename.         *)
(***************************************************************************)
SaveIds == {"a", "b"}

\* the conversations handed to save_conversation
SaveJobs ==
    {Conversation(id, None, messages, <<>>) :
        id \in SaveIds, messages \in {<<>>, <<Message("hi", "user")>>}}

\* a call of save_conversation begins
BeginSave(conversation) ==
    /\ wpc = "idle"
    /\ nsaves < MaxSaves
    /\ wjob' = conversation
    /\ nsaves' = nsaves + 1
    /\ wpc' = "open_temp"
    /\ UNCHANGED <<fs, seen, published, storeVars, liveVars, writers>>

\* with open(temp_file, 'w') as f:
OpenTemp ==
    /\ wpc = "open_temp"
    /\ fs' = open_w(fs, save_temp_file(wjob.id))
    /\ wpc' = "dump"
    /\ UNCHANGED <<wjob, nsaves, seen, published, storeVars, liveVars, writers>>

\* json.dump(conversation_data, f, indent=2): the next piece is written
DumpNext ==
    /\ wpc = "dump"
    /\ Len(fs[save_temp_file(wjob.id)]) < Len(json_dump_conversation(wjob))
    /\ fs' = write_next(fs, save_temp_file(wjob.id), json_dump_conversation(wjob))
    /\ UNCHANGED <<wpc, wjob, nsaves, seen, published, storeVars, liveVars, writers>>

\* json.dump raises on a value it cannot serialize (message data is Any):
\* the call ends and leaves the temporary file as far as it was written
DumpRaises ==
    /\ wpc = "dump"
    /\ Len(fs[save_temp_file(wjob.id)]) < Len(json_dump_conversation(wjob))
    /\ wpc' = "idle"
    /\ UNCHANGED <<fs, wjob, nsaves, seen, published, storeVars, liveVars, writers>>

\* the with block ends: the temporary file is closed, fully written
CloseTemp ==
    /\ wpc = "dump"
    /\ Len(fs[save_temp_file(wjob.id)]) = Len(json_dump_conversation(wjob))
    /\ wpc' = "move"
    /\ UNCHANGED <<fs, wjob, nsaves, seen, published, storeVars, liveVars, writers>>

\* shutil.move(temp_file, conv_file)
MoveTemp ==
    /\ wpc = "move"
    /\ fs' = move(fs, save_temp_file(wjob.id), conv_file(wjob.id))
    /\ published' = published \cup
                        {[id |-> wjob.id, text |-> json_dump_conversation(wjob)]}
    /\ wpc' = "index"
    /\ UNCHANGED <<wjob, nsaves, seen, storeVars, liveVars, writers>>

\* self._update_store_index(conversation_id): the index is missing and is
\* opened for writing in place
IndexOpenDirect ==
    /\ wpc = "index"
    /\ ~exists(fs, store_file)
    /\ fs' = open_w(fs, store_file)
    /\ wpc' = "index_direct"
    /\ UNCHANGED <<wjob, nsaves, seen, published, storeVars, liveVars, writers>>

\* json.dump({"conversation_ids": [conversation_id]}, f), piece by piece
IndexDirectNext ==
    /\ wpc = "index_direct"
    /\ Len(fs[store_file]) < Len(json_dump_index(<<wjob.id>>))
    /\ fs' = write_next(fs, store_file, json_dump_index(<<wjob.id>>))
    /\ UNCHANGED <<wpc, wjob, nsaves, seen, published, storeVars, liveVars, writers>>

IndexDirectClose ==
    /\ wpc = "index_direct"
    /\ Len(fs[store_file]) = Len(json_dump_index(<<wjob.id>>))
    /\ wpc' = "idle"
    /\ UNCHANGED <<fs, wjob, nsaves, seen, published, storeVars, liveVars, writers>>

\* the index exists: it is read; the call ends if it lists the id already
\* (or does not decode), and goes on to rewrite it otherwise.  What was read
\* stays with the writer as store_data["conversation_ids"]
IndexRead ==
    /\ wpc = "index"
    /\ exists(fs, store_file)
    /\ LET store_data == json_load_index(fs[store_file])
       IN  IF store_data.ok /\ wjob.id \notin Range(store_data.value)
           THEN /\ wpc' = "index_open_temp"
                /\ wjob' = Put(wjob, "conversation_ids", store_data.value)
           ELSE /\ wpc' = "idle"
                /\ wjob' = wjob
    /\ UNCHANGED <<fs, nsaves, seen, published, storeVars, liveVars, writers>>

\* the list the index is rewritten with
IndexAppended == Append(wjob["conversation_ids"], wjob.id)

\* with open(temp_file, 'w') as f: of the index
IndexOpenTemp ==
    /\ wpc = "index_open_temp"
    /\ fs' = open_w(fs, index_temp_file)
    /\ wpc' = "index_dump"
    /\ UNCHANGED <<wjob, nsaves, seen, published, storeVars, liveVars, writers>>

IndexDumpNext ==
    /\ wpc = "index_dump"
    /\ Len(fs[index_temp_file]) < Len(json_dump_index(IndexAppended))
    /\ fs' = write_next(fs, index_temp_file, json_dump_index(IndexAppended))
    /\ UNCHANGED <<wpc, wjob, nsaves, seen, published, storeVars, liveVars, writers>>

IndexCloseTemp ==
    /\ wpc = "index_dump"
    /\ Len(fs[index_temp_file]) = Len(json_dump_index(IndexAppended))
    /\ wpc' = "index_move"
    /\ UNCHANGED <<fs, wjob, nsaves, seen, published, storeVars, liveVars, writers>>

\* shutil.move(temp_file, self.store_file)
IndexMove ==
    /\ wpc = "index_move"
    /\ fs' = move(fs, index_temp_file, store_file)
    /\ wpc' = "idle"
    /\ UNCHANGED <<wjob, nsaves, seen, published, storeVars, liveVars, writers>>

\* another store object, in a process of its own, runs a whole
\* save_conversation between two statements of the writer: for another
\* conversation, and not while the writer has the index open for writing
OtherSaves(conversation) ==
    /\ nsaves < MaxSaves
    /\ wpc \in {"idle", "open_temp", "dump", "move", "index", "index_open_temp"}
    /\ wpc # "idle" => conversation.id # wjob.id
    /\ fs' = FileStorageBackend_save_conversation(fs, conversation.id, conversation)
    /\ published' = published \cup
                        {[id |-> conversation.id, text |-> json_dump_conversation(conversation)]}
    /\ nsaves' = nsaves + 1
    /\ UNCHANGED <<wpc, wjob, seen, storeVars, liveVars, writers>>

\* a reader opens the file of conversation id at its final path and reads it
ReadConversationFile(id) ==
    /\ seen' = [id |-> id,
                exists |-> exists(fs, conv_file(id)),
                text |-> IF exists(fs, conv_file(id)) THEN fs[conv_file(id)] ELSE <<>>]
    /\ UNCHANGED <<fs, wpc, wjob, nsaves, published, storeVars, liveVars, writers>>

\* a directory after initialize(), or one whose index is missing
AtomicInit ==
    /\ fs \in {FileStorageBackend_initialize(<<>>), <<>>}
    /\ kind = "file"
    /\ conversations = <<>>
    /\ uuids = 0
    /\ saved = {}
    /\ writes = 0
    /\ last = Call("construct", "", NoneResult)
    /\ SaveIdle
    /\ LiveIdle

\* one writer inside save_conversation, another store that saves between
\* its statements, one reader of the final paths
SpecAtomic == AtomicInit /\ [][
        \/ \E conversation \in SaveJobs : BeginSave(conversation)
        \/ \E conversation \in SaveJobs : OtherSaves(conversation)
        \/ OpenTemp
        \/ DumpNext
        \/ DumpRaises
        \/ CloseTemp
        \/ MoveTemp
        \/ IndexOpenDirect
        \/ IndexDirectNext
        \/ IndexDirectClose
        \/ IndexRead
        \/ IndexOpenTemp
        \/ IndexDumpNext
        \/ IndexCloseTemp
        \/ IndexMove
        \/ \E id \in SaveIds : ReadConversationFile(id)
    ]_vars

(***************************************************************************)
(* Live updates: UIServer.send_update and the /ws endpoint                 *)
(*                                                                         *)
(* Every websocket runs websocket_endpoint once: accept, the subscription  *)
(* handshake, then the process_queue loop until the client disconnects.    *)
(* One iteration of the loop takes at most one message from a queue and    *)
(* hands it to send_json.  A queued message is kept with the number of the *)
(* send_update call that queued it (history, not seen by the program).     *)
(***************************************************************************)
UpdateConversationIds == {"a", "b", "default"}

\* what a client may name in its subscription message; None: the message has
\* no conversation_id, is not JSON, or does not come within the timeout; "":
\* it has an empty one
SubscribeArgs == UpdateConversationIds \cup {"", None}

\* no update_data, update_data without and with a conversation_id key of its
\* own, update_data with an id of its own
UpdateArgs ==
    << <<>>,
       [type |-> "progress"],
       [type |-> "progress", conversation_id |-> "b"],
       [type |-> "progress", id |-> "p"] >>

\* {**update_data, 'conversation_id': conversation_id}
Stamp(update_data, conversation_id) ==
    [k \in DOMAIN update_data \cup {"conversation_id"} |->
        IF k = "conversation_id" THEN conversation_id ELSE update_data[k]]

Queued(n, message) == [n |-> n, message |-> message]

\* connect_websocket without its conversation part: the default set only
connect_websocket_DefaultOnly(conns, queues, websocket, conversation_id) ==
    [conns |-> Put(conns, "default",
                   (IF "default" \in DOMAIN conns THEN conns["default"] ELSE {})
                   \cup {websocket}),
     queues |-> queues]

\* UIServer.connect_websocket
connect_websocket(conns, queues, websocket, conversation_id) ==
    LET withDefault == Put(conns, "default",
                           (IF "default" \in DOMAIN conns THEN conns["default"] ELSE {})
                           \cup {websocket})
    IN  IF Falsy(conversation_id)
        THEN [conns |-> withDefault, queues |-> queues]
        ELSE [conns |-> Put(withDefault, conversation_id,
                            (IF conversation_id \in DOMAIN withDefault
                             THEN withDefault[conversation_id] ELSE {})
                            \cup {websocket}),
              queues |-> IF conversation_id \in DOMAIN queues
                         THEN queues
                         ELSE Put(queues, conversation_id, <<>>)]

\* disconnect_websocket without its conversation part: the default set only
disconnect_websocket_DefaultOnly(conns, websocket, conversation_id) ==
    IF "default" \in DOMAIN conns
    THEN Put(conns, "default", conns["default"] \ {websocket})
    ELSE conns

\* UIServer.disconnect_websocket
disconnect_websocket(conns, websocket, conversation_id) ==
    LET fromDefault == IF "default" \in DOMAIN conns
                       THEN Put(conns, "default", conns["default"] \ {websocket})
                       ELSE conns
    IN  IF ~Falsy(conversation_id) /\ conversation_id \in DOMAIN fromDefault
        THEN Put(fromDefault, conversation_id, fromDefault[conversation_id] \ {websocket})
        ELSE fromDefault

\* UIServer.send_update, as call number n
send_update(queues, conversation_id, update_data, n) ==
    IF DOMAIN update_data = {}
    THEN queues
    ELSE LET message == Stamp(update_data, conversation_id)
             onOwn == Put(queues, conversation_id,
                          Append(IF conversation_id \in DOMAIN queues
                                 THEN queues[conversation_id] ELSE <<>>,
                                 Queued(n, message)))
         IN  Put(onOwn, "default", Append(onOwn["default"], Queued(n, message)))

\* the websockets whose process_queue loop runs and that subscribed to id
BoundTo(id) == {w \in WebSockets : ws_state[w] = "polling" /\ ws_conversation_id[w] = id}

\* await websocket.accept(); await self.connect_websocket(websocket)
Accept(w) ==
    /\ ws_state[w] = "new"
    /\ LET c == connect_websocket(active_connections, update_queues, w, None)
       IN  /\ active_connections' = c.conns
           /\ update_queues' = c.queues
    /\ ws_state' = [ws_state EXCEPT ![w] = "accepted"]
    /\ UNCHANGED <<ws_conversation_id, sent, calls, fs, storeVars, saveVars, request>>

\* the subscription handshake, then queue_task = create_task(process_queue())
Subscribe(w, id) ==
    /\ ws_state[w] = "accepted"
    /\ ws_conversation_id' = [ws_conversation_id EXCEPT ![w] = id]
    /\ IF Falsy(id)
       THEN UNCHANGED <<active_connections, update_queues, sent>>
       ELSE LET c == connect_websocket(active_connections, update_queues, w, id)
            IN  /\ active_connections' = c.conns
                /\ update_queues' = c.queues
                /\ sent' = [sent EXCEPT ![w] =
                              Append(@, Queued(0, [type |-> "subscription_ack",
                                                   conversation_id |-> id]))]
    /\ ws_state' = [ws_state EXCEPT ![w] = "polling"]
    /\ UNCHANGED <<calls, fs, storeVars, saveVars, request>>

\* the handshake names a conversation, connect_websocket registers the
\* websocket, and send_json of the ack raises because the client is gone: the
\* handler ends through its finally block
SubscribeFails(w, id) ==
    /\ ws_state[w] = "accepted"
    /\ ~Falsy(id)
    /\ ws_conversation_id' = [ws_conversation_id EXCEPT ![w] = id]
    /\ LET c == connect_websocket(active_connections, update_queues, w, id)
       IN  /\ active_connections' = disconnect_websocket(c.conns, w, id)
           /\ update_queues' = c.queues
    /\ ws_state' = [ws_state EXCEPT ![w] = "closed"]
    /\ UNCHANGED <<sent, calls, fs, storeVars, saveVars, request>>

\* a call of send_update(conversation_id, update_data)
SendUpdate(id, update_data) ==
    /\ Len(calls) < MaxUpdates
    /\ update_queues' = send_update(update_queues, id, update_data, Len(calls) + 1)
    /\ calls' = Append(calls, [conversation_id |-> id,
                               queued |-> DOMAIN update_data # {},
                               bound |-> BoundTo(id)])
    /\ UNCHANGED <<active_connections, ws_state, ws_conversation_id, sent,
                   fs, storeVars, saveVars, request>>

\* BaseAgent.send_update as call number n: what it hands to the server, with
\* an id of its own when update_data had none
agent_update_data(update_data, n) ==
    IF "id" \in DOMAIN update_data
    THEN update_data
    ELSE [k \in DOMAIN update_data \cup {"id"} |->
            IF k = "id" THEN uuid4(n) ELSE update_data[k]]

\* a call of agent.send_update(conversation_id, update_data), the agent being
\* the one the server was constructed with
AgentSendUpdate(id, update_data) ==
    /\ Len(calls) < MaxUpdates
    /\ update_queues' = send_update(update_queues, id,
                                    agent_update_data(update_data, Len(calls) + 1),
                                    Len(calls) + 1)
    /\ calls' = Append(calls, [conversation_id |-> id,
                               queued |-> TRUE,
                               bound |-> BoundTo(id)])
    /\ UNCHANGED <<active_connections, ws_state, ws_conversation_id, sent,
                   fs, storeVars, saveVars, request>>

\* process_queue that filters the default queue for every connection, bound
\* or not
ProcessQueue_Filtered(w) ==
    /\ ws_state[w] = "polling"
    /\ LET id == ws_conversation_id[w]
       IN  IF /\ ~Falsy(id)
              /\ id \in DOMAIN update_queues
              /\ update_queues[id] # <<>>
           THEN /\ update_queues' = [update_queues EXCEPT ![id] = Tail(@)]
                /\ sent' = [sent EXCEPT ![w] = Append(@, Head(update_queues[id]))]
           ELSE IF update_queues["default"] # <<>>
           THEN LET item == Head(update_queues["default"])
                IN  /\ update_queues' = [update_queues EXCEPT !["default"] = Tail(@)]
                    /\ IF ~Falsy(id) /\ item.message["conversation_id"] = id
                       THEN sent' = [sent EXCEPT ![w] = Append(@, item)]
                       ELSE UNCHANGED sent
           ELSE UNCHANGED <<update_queues, sent>>
    /\ UNCHANGED <<active_connections, ws_state, ws_conversation_id, calls,
                   fs, storeVars, saveVars, request>>

\* process_queue in a thread of its own: an iteration may run while a
\* request is being handled
ProcessQueue_Unblocked(w) ==
    /\ ws_state[w] = "polling"
    /\ LET id == ws_conversation_id[w]
       IN  IF /\ ~Falsy(id)
              /\ id \in DOMAIN update_queues
              /\ update_queues[id] # <<>>
           THEN /\ update_queues' = [update_queues EXCEPT ![id] = Tail(@)]
                /\ sent' = [sent EXCEPT ![w] = Append(@, Head(update_queues[id]))]
           ELSE IF update_queues["default"] # <<>>
           THEN LET item == Head(update_queues["default"])
                IN  /\ update_queues' = [update_queues EXCEPT !["default"] = Tail(@)]
                    /\ IF Falsy(id) \/ item.message["conversation_id"] = id
                       THEN sent' = [sent EXCEPT ![w] = Append(@, item)]
                       ELSE UNCHANGED sent
           ELSE UNCHANGED <<update_queues, sent>>
    /\ UNCHANGED <<active_connections, ws_state, ws_conversation_id, calls,
                   fs, storeVars, saveVars, request>>

\* one iteration of the while loop of process_queue.  The loop is a task of
\* the event loop that also runs handle_message, which calls on_message
\* without awaiting: no iteration runs while a request is being handled
ProcessQueue(w) ==
    /\ request.pc = "idle"
    /\ ws_state[w] = "polling"
    /\ LET id == ws_conversation_id[w]
       IN  IF /\ ~Falsy(id)
              /\ id \in DOMAIN update_queues
              /\ update_queues[id] # <<>>
           THEN /\ update_queues' = [update_queues EXCEPT ![id] = Tail(@)]
                /\ sent' = [sent EXCEPT ![w] = Append(@, Head(update_queues[id]))]
           ELSE IF update_queues["default"] # <<>>
           THEN LET item == Head(update_queues["default"])
                IN  /\ update_queues' = [update_queues EXCEPT !["default"] = Tail(@)]
                    /\ IF Falsy(id) \/ item.message["conversation_id"] = id
                       THEN sent' = [sent EXCEPT ![w] = Append(@, item)]
                       ELSE UNCHANGED sent
           ELSE UNCHANGED <<update_queues, sent>>
    /\ UNCHANGED <<active_connections, ws_state, ws_conversation_id, calls,
                   fs, storeVars, saveVars, request>>

\* the client disconnects: receive_text raises WebSocketDisconnect and the
\* finally block stops the loop and calls disconnect_websocket
Disconnect(w) ==
    /\ ws_state[w] \in {"accepted", "polling"}
    /\ active_connections' = disconnect_websocket(active_connections, w, ws_conversation_id[w])
    /\ ws_state' = [ws_state EXCEPT ![w] = "closed"]
    /\ UNCHANGED <<update_queues, ws_conversation_id, sent, calls, fs, storeVars, saveVars, request>>

\* a server just constructed
LiveInit ==
    /\ fs = <<>>
    /\ kind = "file"
    /\ conversations = <<>>
    /\ uuids = 0
    /\ saved = {}
    /\ writes = 0
    /\ last = Call("construct", "", NoneResult)
    /\ SaveIdle
    /\ LiveIdle

\* the server, its websockets and the callers of send_update
SpecLive == LiveInit /\ [][
        \/ \E w \in WebSockets : Accept(w)
        \/ \E w \in WebSockets, id \in SubscribeArgs : Subscribe(w, id)
        \/ \E w \in WebSockets, id \in SubscribeArgs : SubscribeFails(w, id)
        \/ \E id \in UpdateConversationIds, i \in DOMAIN UpdateArgs : SendUpdate(id, UpdateArgs[i])
        \/ \E id \in UpdateConversationIds, i \in DOMAIN UpdateArgs :
                AgentSendUpdate(id, UpdateArgs[i])
        \/ \E w \in WebSockets : ProcessQueue(w)
        \/ \E w \in WebSockets : Disconnect(w)
    ]_vars

\* the lifecycle of the websockets, every update being the same plain
\* update_data sent through the server
SpecLifecycle == LiveInit /\ [][
        \/ \E w \in WebSockets : Accept(w)
        \/ \E w \in WebSockets, id \in SubscribeArgs : Subscribe(w, id)
        \/ \E w \in WebSockets, id \in SubscribeArgs : SubscribeFails(w, id)
        \/ \E id \in UpdateConversationIds : SendUpdate(id, UpdateArgs[2])
        \/ \E w \in WebSockets : ProcessQueue(w)
        \/ \E w \in WebSockets : Disconnect(w)
    ]_vars

(***************************************************************************)
(* A store beside a JsonFileStorage: PersistentMessageStore.save(),        *)
(* JsonFileStorage.save_store / load_store, and changes made to a          *)
(* conversation object directly.                                           *)
(***************************************************************************)
\* ids and titles passed to the store's methods
PersistIds == {"a", "b"}

\* titles assigned to a conversation object directly
AssignedTitles == {"u", ""}

\* PersistentMessageStore(provider) without initialize(): an empty store over
\* the directory as it is
NewPersistentStore ==
    /\ kind' = "persistent"
    /\ conversations' = <<>>
    /\ last' = Call("construct", "", NoneResult)
    /\ UNCHANGED <<fs, uuids, saved, writes, saveVars, liveVars>>

\* conversation.title = title, on the object the store holds under id
AssignTitle(id, title) ==
    /\ id \in DOMAIN conversations
    /\ conversations[id].title # title
    /\ conversations' = [conversations EXCEPT ![id].title = title]
    /\ last' = Call("assign_title", id, NoneResult)
    /\ UNCHANGED <<fs, kind, uuids, saved, writes, saveVars, liveVars>>

\* storage.save_store(store); PersistentMessageStore.save() is this call
SaveStore ==
    /\ fs' = JsonFileStorage_save_store(fs, conversations)
    /\ saved' = saved \cup {conversations[id].id : id \in DOMAIN conversations}
    /\ last' = Call("save_store", "", NoneResult)
    /\ UNCHANGED <<conversations, kind, uuids, writes, saveVars, liveVars>>

\* storage.load_store()
LoadStore ==
    /\ LET loaded_store == JsonFileStorage_load_store(fs)
       IN  /\ fs' = loaded_store.fs
           /\ saved' = saved \cup loaded_store.resaved
           /\ last' = Call("load_store", "",
                           IF loaded_store.none THEN Returned(NoneResult)
                           ELSE Returned([store |-> loaded_store.store]))
    /\ UNCHANGED <<conversations, kind, uuids, writes, saveVars, liveVars>>

\* a directory after JsonFileStorage.initialize() and a PersistentMessageStore
PersistInit ==
    /\ kind = "persistent"
    /\ fs = JsonFileStorage_initialize(<<>>)
    /\ conversations = <<>>
    /\ uuids = 0
    /\ saved = {}
    /\ writes = 0
    /\ last = Call("construct", "", NoneResult)
    /\ SaveIdle
    /\ LiveIdle

\* stores whose conversations are saved and loaded through a JsonFileStorage
SpecPersist == PersistInit /\ [][
        \/ Construct("persistent")
        \/ NewPersistentStore
        \/ \E id \in PersistIds : CreateConversation(None, id)
        \/ \E id \in PersistIds, m \in MessageArgs : AddMessage(id, m[1], m[2])
        \/ \E id \in PersistIds, a \in ActionArgs : AddAction(id, a[1], a[2])
        \/ \E title \in AssignedTitles : AssignTitle("a", title)
        \/ SaveStore
        \/ LoadStore
    ]_vars

(***************************************************************************)
(* MessageStore(save_dir, backend_type): the choice of the backend         *)
(***************************************************************************)
\* None: no save_dir given; "d": the path of the storage directory
SaveDirArgs == {None, "d"}
BackendTypeArgs == {"memory", "file"}

\* MessageStore.__init__: the class of backend the new store has ("memory":
\* MemoryStorageBackend, whose methods write no file), or ValueError
MessageStore_backend(save_dir, backend_type) ==
    IF ~Falsy(save_dir) THEN Returned([backend |-> "file"])
    ELSE IF backend_type = "file" THEN Raised("ValueError")
    ELSE Returned([backend |-> "memory"])

\* MessageStore(save_dir=save_dir, backend_type=backend_type)
NewMessageStore(save_dir, backend_type) ==
    /\ LET chosen == MessageStore_backend(save_dir, backend_type)
       IN  /\ last' = Call("MessageStore", "", chosen)
           /\ IF chosen.raised
              THEN UNCHANGED <<fs, conversations, kind, uuids, saved>>
              ELSE IF chosen.value.backend = "file"
              THEN kind' = "file" /\ Apply(MessageStore_init(St))
              ELSE /\ kind' = "memory"
                   /\ conversations' = <<>>
                   /\ UNCHANGED <<fs, uuids, saved>>
    /\ UNCHANGED <<writes, saveVars, liveVars>>

\* stores constructed with every combination of the two arguments, and used
SpecConfig == StoreInit /\ [][
        \/ \E save_dir \in SaveDirArgs, backend_type \in BackendTypeArgs :
                NewMessageStore(save_dir, backend_type)
        \/ \E title \in TitleArgs, id \in KnownIds : CreateConversation(title, id)
        \/ \E id \in KnownIds, m \in MessageArgs : AddMessage(id, m[1], m[2])
        \/ \E id \in KnownIds, a \in ActionArgs : AddAction(id, a[1], a[2])
    ]_vars

(***************************************************************************)
(* The end of a connection in steps: the client leaves, then the delivery  *)
(* loop and the handler end                                                *)
(***************************************************************************)
\* the client of a running connection disconnects: receive_text will raise in
\* the handler, whose finally block sets cancel_event and waits for the loop
ClientLeaves(w) ==
    /\ ws_state[w] = "polling"
    /\ ws_state' = [ws_state EXCEPT ![w] = "leaving"]
    /\ UNCHANGED <<active_connections, update_queues, ws_conversation_id, sent, calls,
                   fs, storeVars, saveVars, request>>

\* an iteration of process_queue that was under way, or began before the
\* handler set cancel_event: the item it takes is discarded by the filter and
\* the loop goes on, or is handed to send_json, which raises because the
\* client is gone, and the loop ends through its except and finally clauses
LoopDrops(w) ==
    /\ ws_state[w] = "leaving"
    /\ LET id == ws_conversation_id[w]
           own == ~Falsy(id) /\ id \in DOMAIN update_queues /\ update_queues[id] # <<>>
           key == IF own THEN id ELSE "default"
       IN  /\ update_queues[key] # <<>>
           /\ update_queues' = [update_queues EXCEPT ![key] = Tail(@)]
           /\ IF own \/ Falsy(id) \/ Head(update_queues[key]).message["conversation_id"] = id
              THEN /\ ws_state' = [ws_state EXCEPT ![w] = "closed"]
                   /\ active_connections' = disconnect_websocket(active_connections, w, id)
              ELSE UNCHANGED <<ws_state, active_connections>>
    /\ UNCHANGED <<ws_conversation_id, sent, calls, fs, storeVars, saveVars, request>>

\* loop that does not test cancel_event and cannot be cancelled
LoopStops_Ignored(w) ==
    /\ ws_state[w] = "leaving"
    /\ ws_state' = [ws_state EXCEPT ![w] = "polling"]
    /\ UNCHANGED <<active_connections, update_queues, ws_conversation_id, sent, calls,
                   fs, storeVars, saveVars, request>>

\* the loop finds cancel_event set at its while test or in its 0.1 s wait, or
\* wait_for cancels the task after 1 s; the finally blocks call
\* disconnect_websocket
LoopStops(w) ==
    /\ ws_state[w] = "leaving"
    /\ ws_state' = [ws_state EXCEPT ![w] = "closed"]
    /\ active_connections' = disconnect_websocket(active_connections, w, ws_conversation_id[w])
    /\ UNCHANGED <<update_queues, ws_conversation_id, sent, calls, fs, storeVars, saveVars, request>>

\* connections that are served and end step by step; the event loop runs
\* every task that can run, so a loop whose cancel_event is set or whose
\* bounded wait has passed does end
SpecLoop ==
    /\ LiveInit
    /\ [][\/ \E w \in WebSockets : Accept(w)
          \/ \E w \in WebSockets, id \in SubscribeArgs : Subscribe(w, id)
          \/ \E id \in UpdateConversationIds : SendUpdate(id, UpdateArgs[2])
          \/ \E w \in WebSockets : ProcessQueue(w)
          \/ \E w \in WebSockets : ClientLeaves(w)
          \/ \E w \in WebSockets : LoopDrops(w)
          \/ \E w \in WebSockets : LoopStops(w)]_vars
    /\ \A w \in WebSockets : WF_vars(LoopStops(w))

(***************************************************************************)
(* POST /api/message and BaseAgent.on_message                              *)
(*                                                                         *)
(* handle_message calls on_message without awaiting anything, so a request *)
(* is followed from the call of _handle_message to its return or its       *)
(* exception with no other request of the same server in between.          *)
(***************************************************************************)
\* handle_message that hands every body to the agent
PostMessage_NoValidation(conversation_id, message) ==
    /\ request.pc = "idle"
    /\ Items(conversations) < MaxItems
    /\ CanDraw(conversation_id)
    /\ Apply(add_message(St, kind, conversation_id, message, "user").st)
    /\ last' = Call("_handle_message", conversation_id, NoneResult)
    /\ request' = [pc |-> "handling", via |-> "POST",
                   conversation_id |-> conversation_id, message |-> message]
    /\ UNCHANGED <<kind, writes, saveVars, active_connections, update_queues, ws_state,
                   ws_conversation_id, sent, calls>>

\* POST /api/message with a JSON body; None: the key is missing.  Up to the
\* call of _handle_message
PostMessage(conversation_id, message) ==
    /\ request.pc = "idle"
    /\ IF Falsy(conversation_id) \/ Falsy(message)
       THEN /\ last' = Call("POST", "", Returned([status_code |-> 400,
                                error |-> "conversation_id and message are required"]))
            /\ UNCHANGED <<fs, conversations, uuids, saved, request>>
       ELSE /\ Items(conversations) < MaxItems
            /\ Apply(add_message(St, kind, conversation_id, message, "user").st)
            /\ last' = Call("_handle_message", conversation_id, NoneResult)
            /\ request' = [pc |-> "handling", via |-> "POST",
                           conversation_id |-> conversation_id, message |-> message]
    /\ UNCHANGED <<kind, writes, saveVars, active_connections, update_queues, ws_state,
                   ws_conversation_id, sent, calls>>

\* agent.on_message(convo_id, message) called directly, up to the call of
\* _handle_message
OnMessage(convo_id, message) ==
    /\ request.pc = "idle"
    /\ Items(conversations) < MaxItems
    /\ CanDraw(convo_id)
    /\ Apply(add_message(St, kind, convo_id, message, "user").st)
    /\ last' = Call("_handle_message", convo_id, NoneResult)
    /\ request' = [pc |-> "handling", via |-> "on_message",
                   conversation_id |-> convo_id, message |-> message]
    /\ UNCHANGED <<kind, writes, saveVars, active_connections, update_queues, ws_state,
                   ws_conversation_id, sent, calls>>

\* _handle_message returns response: on_message stores it and returns it,
\* handle_message answers {"response": response}
HandlerReturns(response) ==
    /\ request.pc = "handling"
    /\ Apply(add_message(St, kind, request.conversation_id, response, "assistant").st)
    /\ last' = Call(request.via, request.conversation_id,
                    Returned([status_code |-> 200, response |-> response]))
    /\ request' = [pc |-> "idle", via |-> "", conversation_id |-> "", message |-> ""]
    /\ UNCHANGED <<kind, writes, saveVars, active_connections, update_queues, ws_state,
                   ws_conversation_id, sent, calls>>

\* handle_message that reports a failure of the agent as a success
HandlerRaises_Answers200 ==
    /\ request.pc = "handling"
    /\ last' = Call(request.via, request.conversation_id,
                    Returned([status_code |-> 200,
                              error |-> "Failed to process message"]))
    /\ request' = [pc |-> "idle", via |-> "", conversation_id |-> "", message |-> ""]
    /\ UNCHANGED <<fs, conversations, kind, uuids, saved, writes, saveVars, active_connections, update_queues,
                   ws_state, ws_conversation_id, sent, calls>>

\* _handle_message raises: on_message passes the exception on; handle_message
\* catches it and answers 500 with error and detail
HandlerRaises ==
    /\ request.pc = "handling"
    /\ last' = Call(request.via, request.conversation_id,
                    IF request.via = "POST"
                    THEN Returned([status_code |-> 500,
                                   error |-> "Failed to process message"])
                    ELSE Raised("Exception"))
    /\ request' = [pc |-> "idle", via |-> "", conversation_id |-> "", message |-> ""]
    /\ UNCHANGED <<fs, conversations, kind, uuids, saved, writes, saveVars, active_connections, update_queues,
                   ws_state, ws_conversation_id, sent, calls>>

\* an agent over a store of either class that serves requests, one at a time,
\* and is restarted between requests
SpecRequest ==
    StoreInit /\
    [][\/ \E conversation_id \in {"a", "b", "", None}, message \in {"hi", "", None} :
              PostMessage(conversation_id, message)
       \/ \E convo_id \in {"a", ""} : OnMessage(convo_id, "hi")
       \/ \E response \in {"yo"} : HandlerReturns(response)
       \/ HandlerRaises
       \/ \E k \in Kinds : request.pc = "idle" /\ Construct(k)]_vars

\* the server with its viewers while requests are handled: whatever runs on
\* the event loop waits for the handler, the agent sends its updates from
\* inside _handle_message, other callers send theirs between requests
SpecHandling == LiveInit /\ [][
        \/ \E w \in WebSockets : request.pc = "idle" /\ Accept(w)
        \/ \E w \in WebSockets, id \in {"a", None} :
                request.pc = "idle" /\ Subscribe(w, id)
        \/ \E id \in {"a", "b"} : request.pc = "idle" /\ SendUpdate(id, UpdateArgs[2])
        \/ \E conversation_id \in {"a", ""} : PostMessage(conversation_id, "hi")
        \/ \E id \in {"a", "b"} :
                request.pc = "handling" /\ AgentSendUpdate(id, UpdateArgs[2])
        \/ HandlerReturns("yo")
        \/ HandlerRaises
        \/ \E w \in WebSockets : ProcessQueue(w)
    ]_vars

(***************************************************************************)
(* Two stores over one directory that append to the same conversation      *)
(*                                                                         *)
(* Each store object lives in a process of its own and holds its own copy  *)
(* of conversation "a".  save_conversation of both uses the same temporary *)
(* path, a.tmp.  An open file stays with its inode: open(p, 'w') of an     *)
(* existing path empties the file other descriptors already write to, a    *)
(* rename takes the descriptors along to the new name, and a file that is  *)
(* replaced by a rename is written to without being visible any more.      *)
(***************************************************************************)
\* writers[s].at says where the file that s has open is now: under the name
\* "temp_file", under the name "conv_file", "unlinked", or "closed".

\* write(piece) through a descriptor whose position is off: bytes that were
\* never written between the end of the file and off read as NUL
write_at(text, off, piece) ==
    IF off < Len(text) THEN [text EXCEPT ![off + 1] = piece]
    ELSE text \o [i \in 1..(off - Len(text)) |-> Tok("NUL", "", "")] \o <<piece>>

\* store.add_message("a", content, "user") in process s, up to the call of
\* backend.save_conversation
WriterAppends(s, content) ==
    /\ writers[s].pc = "idle"
    /\ Len(writers[s].conv.messages) < MaxItems
    /\ writers' = [writers EXCEPT
                      ![s].conv.messages = Append(@, Message(content, "user")),
                      ![s].pc = "open"]
    /\ UNCHANGED <<fs, storeVars, wpc, wjob, nsaves, seen, published, liveVars>>

\* with open(temp_file, 'w') as f:
WriterOpens(s) ==
    /\ writers[s].pc = "open"
    /\ fs' = open_w(fs, save_temp_file("a"))
    /\ writers' = [writers EXCEPT ![s].pc = "dump", ![s].off = 0,
                                  ![s].at = "temp_file"]
    /\ UNCHANGED <<storeVars, wpc, wjob, nsaves, seen, published, liveVars>>

\* json.dump: the next piece is written at the position of the descriptor;
\* after the last piece the with block closes the file
WriterWrites(s) ==
    LET text == json_dump_conversation(writers[s].conv)
        off == writers[s].off
        at == writers[s].at
        p == IF at = "temp_file" THEN save_temp_file("a") ELSE conv_file("a")
    IN  /\ writers[s].pc = "dump"
        /\ fs' = IF at = "unlinked" THEN fs
                 ELSE Put(fs, p, write_at(fs[p], off, text[off + 1]))
        /\ writers' = [writers EXCEPT
                          ![s].off = off + 1,
                          ![s].pc = IF off + 1 = Len(text) THEN "move" ELSE "dump",
                          ![s].at = IF off + 1 = Len(text) THEN "closed" ELSE at]
        /\ UNCHANGED <<storeVars, wpc, wjob, nsaves, seen, published, liveVars>>

\* shutil.move(temp_file, conv_file), then _update_store_index; a temporary
\* file that is gone makes shutil.move raise FileNotFoundError out of
\* add_message
WriterMoves(s) ==
    LET temp_file == save_temp_file("a")
    IN  /\ writers[s].pc = "move"
        /\ IF exists(fs, temp_file)
           THEN /\ fs' = FileStorageBackend_update_store_index(
                             move(fs, temp_file, conv_file("a")), "a")
                /\ writers' = [v \in Writers |->
                      IF v = s THEN [writers[v] EXCEPT !.pc = "idle"]
                      ELSE IF writers[v].at = "temp_file"
                           THEN [writers[v] EXCEPT !.at = "conv_file"]
                      ELSE IF writers[v].at = "conv_file"
                           THEN [writers[v] EXCEPT !.at = "unlinked"]
                      ELSE writers[v]]
                /\ last' = Call("add_message", s, NoneResult)
           ELSE /\ fs' = fs
                /\ writers' = [writers EXCEPT ![s].pc = "idle"]
                /\ last' = Call("add_message", s, Raised("FileNotFoundError"))
        /\ UNCHANGED <<conversations, kind, uuids, saved, writes,
                       wpc, wjob, nsaves, seen, published, liveVars>>

\* a directory that holds conversation "a", still empty, loaded by two
\* file-backed stores that then append to it side by side
WritersInit ==
    /\ kind = "file"
    /\ LET created == create_conversation(
                          [c |-> <<>>, f |-> FileStorageBackend_initialize(<<>>),
                           u |-> 0, s |-> {}], "file", None, "a").st
       IN  /\ fs = created.f
           /\ conversations = created.c
           /\ uuids = created.u
           /\ saved = created.s
    /\ writes = 0
    /\ last = Call("construct", "", NoneResult)
    /\ SaveIdle
    /\ LiveIdle

SpecWriters ==
    WritersInit /\
    [][\E s \in Writers :
          \/ \E content \in {"x", "y"} : WriterAppends(s, content)
          \/ WriterOpens(s)
          \/ WriterWrites(s)
          \/ WriterMoves(s)]_vars

(***************************************************************************)
(* Objects built without a backend: Conversation(...), to_dict, from_dict  *)
(***************************************************************************)
\* Conversation(id=id, title=title), None standing for a keyword that is not
\* passed, after n draws of uuid.uuid4().  Without a title __init__ labels
\* data.get("id", str(uuid.uuid4())); without an id the field's
\* default_factory draws the id afterwards.
Conversation_init(id, title, n) ==
    LET id_value == IF id = None THEN uuid4(n + 1) ELSE id
        drawn == IF Falsy(title) /\ id = None THEN uuid4(n + 2) ELSE uuid4(n + 1)
    IN  [id |-> IF id = None THEN drawn ELSE id,
         title |-> IF Falsy(title)
                   THEN "Conversation " \o SubSeq(id_value, 1, Min(8, Len(id_value)))
                   ELSE title,
         messages |-> <<>>,
         actions |-> <<>>]

\* a Conversation constructed directly, outside any store
NewConversation(id, title) ==
    /\ uuids = 0
    /\ last' = Call("Conversation", "", Returned(Conversation_init(id, title, uuids)))
    /\ uuids' = IF id # None THEN uuids ELSE IF Falsy(title) THEN uuids + 2 ELSE uuids + 1
    /\ UNCHANGED <<fs, conversations, kind, saved, writes, saveVars, liveVars>>

\* MessageStore.to_dict: model_dump() of every conversation under its key
MessageStore_to_dict(convs) ==
    [conversations |->
        [id \in DOMAIN convs |->
            [id |-> convs[id].id, title |-> convs[id].title,
             messages |-> convs[id].messages, actions |-> convs[id].actions]]]

\* from_dict that forgets the actions
from_dict_NoActions(data) ==
    [id \in DOMAIN data.conversations |->
        Conversation(data.conversations[id].id, data.conversations[id].title,
                     data.conversations[id].messages, <<>>)]

\* MessageStore.from_dict: the conversations of the store it returns
MessageStore_from_dict(data) ==
    [id \in DOMAIN data.conversations |->
        Conversation(data.conversations[id].id, data.conversations[id].title,
                     data.conversations[id].messages, data.conversations[id].actions)]

\* MessageStore.from_dict(store.to_dict()); store = cls() inside from_dict
\* takes the backend MessageStore() has
FromDict ==
    /\ LET chosen == MessageStore_backend(None, "memory")
       IN  fs' = IF chosen.value.backend = "file"
                 THEN FileStorageBackend_initialize(fs)
                 ELSE fs
    /\ last' = Call("from_dict", "",
                    Returned([store |-> MessageStore_from_dict(
                                            MessageStore_to_dict(conversations))]))
    /\ UNCHANGED <<conversations, kind, uuids, saved, writes, saveVars, liveVars>>

\* stores of every backend, used, dumped and rebuilt, beside conversations
\* constructed directly
SpecObjects ==
    StoreInit /\
    [][\/ \E save_dir \in SaveDirArgs, backend_type \in BackendTypeArgs :
              NewMessageStore(save_dir, backend_type)
       \/ \E title \in TitleArgs, id \in IdArgs : CreateConversation(title, id)
       \/ \E id \in IdArgs, m \in MessageArgs : AddMessage(id, m[1], m[2])
       \/ \E id \in IdArgs, a \in ActionArgs : AddAction(id, a[1], a[2])
       \/ \E id \in {None, "a", "0123456789"}, title \in {None, "", "t"} :
              NewConversation(id, title)
       \/ FromDict]_vars

(***************************************************************************)
(* Properties of the store                                                 *)
(***************************************************************************)
\* the conversations a MessageStore newly constructed over directory f holds
FreshConversations(f) == MessageStore_init([c |-> <<>>, f |-> f, u |-> 0, s |-> {}]).c

\* a call of one of the three mutating methods of the store
StoreCall ==
    \/ \E title \in TitleArgs, id \in KnownIds : CreateConversation(title, id)
    \/ \E id \in KnownIds, m \in MessageArgs : AddMessage(id, m[1], m[2])
    \/ \E id \in KnownIds, a \in ActionArgs : AddAction(id, a[1], a[2])

\* what the conversation file of id decodes to
Persisted(f, id) == json_load_conversation(f[conv_file(id)])

\* C1: round-trip persistence.  Whatever a file-backed MessageStore holds after
\* its add_message calls, a MessageStore newly constructed over the same
\* directory holds every one of its conversations with the same messages
\* (content and role), in the same order and number.
C1_RoundTrip ==
    kind = "file" =>
        \A id \in DOMAIN conversations :
            /\ id \in DOMAIN FreshConversations(fs)
            /\ FreshConversations(fs)[id].messages = conversations[id].messages

\* C1 witness: two different messages were appended to one conversation of a
\* file-backed store, and the new store holds both in order
C1_Witness ==
    /\ kind = "file"
    /\ last.op = "add_message"
    /\ \E id \in DOMAIN conversations :
        /\ Len(conversations[id].messages) = 2
        /\ conversations[id].messages[1] # conversations[id].messages[2]
        /\ id \in DOMAIN FreshConversations(fs)
        /\ FreshConversations(fs)[id].messages = conversations[id].messages

\* C2: append-only conversations.  Across create_conversation, add_message and
\* add_action the messages and the actions a conversation id held before the
\* call are a prefix of those it holds after it, in memory and in its file.
C2_AppendOnly ==
    [][StoreCall =>
        \A id \in DOMAIN conversations :
            /\ id \in DOMAIN conversations'
            /\ IsPrefix(conversations[id].messages, conversations'[id].messages)
            /\ IsPrefix(conversations[id].actions, conversations'[id].actions)
            /\ (exists(fs, conv_file(id)) /\ Persisted(fs, id).ok) =>
                /\ exists(fs', conv_file(id))
                /\ Persisted(fs', id).ok
                /\ IsPrefix(Persisted(fs, id).value.messages, Persisted(fs', id).value.messages)
                /\ IsPrefix(Persisted(fs, id).value.actions, Persisted(fs', id).value.actions)
    ]_vars

\* C3: get-or-create on append.  add_message and add_action on an id the store
\* does not hold leave a conversation with exactly that id holding exactly the
\* appended item; on an id it holds they add no conversation and append.
C3_GetOrCreate ==
    [][/\ \A id \in KnownIds, m \in MessageArgs :
            AddMessage(id, m[1], m[2]) =>
                IF id \in DOMAIN conversations
                THEN /\ DOMAIN conversations' = DOMAIN conversations
                     /\ conversations'[id].messages =
                            Append(conversations[id].messages, Message(m[1], m[2]))
                ELSE /\ DOMAIN conversations' = DOMAIN conversations \cup {id}
                     /\ conversations'[id].id = id
                     /\ conversations'[id].messages = <<Message(m[1], m[2])>>
                     /\ conversations'[id].actions = <<>>
       /\ \A id \in KnownIds, a \in ActionArgs :
            AddAction(id, a[1], a[2]) =>
                IF id \in DOMAIN conversations
                THEN /\ DOMAIN conversations' = DOMAIN conversations
                     /\ conversations'[id].actions =
                            Append(conversations[id].actions, ConversationAction(a[1], a[2]))
                ELSE /\ DOMAIN conversations' = DOMAIN conversations \cup {id}
                     /\ conversations'[id].id = id
                     /\ conversations'[id].actions = <<ConversationAction(a[1], a[2])>>
                     /\ conversations'[id].messages = <<>>
    ]_vars

(***************************************************************************)
(* Properties of the storage classes                                       *)
(***************************************************************************)
\* the index file decodes and lists at least one id
IndexLists(f) ==
    /\ exists(f, store_file)
    /\ json_load_index(f[store_file]).ok
    /\ Range(json_load_index(f[store_file]).value) # {}

\* C8: initialize() of either storage class on a directory that holds an index
\* file leaves the index and every conversation file as they were.
C8_InitializeKeeps ==
    [][\A k \in Kinds : (Initialize(k) /\ exists(fs, store_file)) => fs' = fs]_vars

\* C8 witness: initialize() has run on a directory whose index lists a
\* conversation that has a file
C8_Witness ==
    /\ last.op = "initialize"
    /\ IndexLists(fs)
    /\ \E id \in KnownIds : exists(fs, conv_file(id))

\* C9: list_conversation_ids() of a new storage object returns exactly the ids
\* that were saved into the directory, whatever the index file holds.
C9_ListIsSaved ==
    last.op = "list_conversation_ids" => last.ret = Returned(saved)

\* C9 witness: two ids were saved, the index no longer lists them, and the
\* listing has run
C9_Witness ==
    /\ last.op = "list_conversation_ids"
    /\ Cardinality(saved) = 2
    /\ ~IndexLists(fs)
    /\ last.ret = Returned(saved)

\* C10: load_conversation(id) of either storage class on a conversation file
\* that is not well-formed JSON returns None, raises nothing, and leaves the
\* directory as it was.
C10_MalformedAbsorbed ==
    [][\A k \in Kinds, id \in KnownIds :
        (LoadConversation(k, id) /\ exists(fs, conv_file(id)) /\ ~Persisted(fs, id).ok)
            => (last'.ret = Returned(NoneResult) /\ fs' = fs)]_vars

\* C10 witness: load_conversation has returned None for a file that exists
\* and does not decode
C10_Witness ==
    /\ last.op = "load_conversation"
    /\ exists(fs, conv_file(last.id))
    /\ ~Persisted(fs, last.id).ok
    /\ last.ret = Returned(NoneResult)

(***************************************************************************)
(* Properties of save_conversation in steps                                *)
(***************************************************************************)
\* C7: atomic conversation write.  Whatever statement save_conversation is at,
\* a reader that opens a conversation's file at its final path finds either no
\* file or the whole text one save of that conversation renamed into place:
\* never a partly written file.
C7_AtomicWrite ==
    seen.exists => [id |-> seen.id, text |-> seen.text] \in published

\* a reader found a complete file while a later save of the same conversation
\* was part-way through writing a different text
C7_Witness ==
    /\ seen.exists
    /\ wpc = "dump"
    /\ wjob.id = seen.id
    /\ fs[save_temp_file(wjob.id)] # <<>>
    /\ Len(fs[save_temp_file(wjob.id)]) < Len(json_dump_conversation(wjob))
    /\ json_dump_conversation(wjob) # seen.text
    /\ seen.text = fs[conv_file(seen.id)]

(***************************************************************************)
(* Properties of live updates                                              *)
(***************************************************************************)
\* the updates a websocket was sent that are stamped with conversation id
\* (the subscription ack is no update: it carries call number 0)
SentFor(w, id) ==
    SelectSeq(sent[w], LAMBDA item : item.n > 0 /\ item.message["conversation_id"] = id)

\* call n's message waits in the queue under key
InQueue(key, n) ==
    /\ key \in DOMAIN update_queues
    /\ \E i \in DOMAIN update_queues[key] : update_queues[key][i].n = n

\* C4: per-conversation delivery order.  A websocket subscribed to a
\* conversation is never sent one of that conversation's updates after an
\* update of it that was passed to send_update later.
C4_DeliveryOrder ==
    \A w \in WebSockets :
        ~Falsy(ws_conversation_id[w]) =>
            LET got == SentFor(w, ws_conversation_id[w])
            IN  \A i, j \in DOMAIN got : i < j => got[i].n <= got[j].n

\* C5: filter correctness.  Everything a websocket subscribed to conversation
\* A is sent is stamped A: it is never sent an update stamped with another
\* conversation's id, from whichever queue the update was taken.
C5_FilterCorrect ==
    \A w \in WebSockets :
        ~Falsy(ws_conversation_id[w]) =>
            \A i \in DOMAIN sent[w] :
                sent[w][i].message["conversation_id"] = ws_conversation_id[w]

\* C6: fan-out.  Every update queued by send_update(c, .) while a websocket
\* was subscribed to c either has been sent to that websocket, or the
\* websocket has disconnected, or a copy still waits in a queue the websocket
\* reads (c's queue or the default queue): if none of these holds the update
\* can never be sent to it any more.
C6_FanOut ==
    \A n \in DOMAIN calls : \A w \in calls[n].bound :
        \/ ~calls[n].queued
        \/ ws_state[w] # "polling"
        \/ \E i \in DOMAIN sent[w] : sent[w][i].n = n
        \/ InQueue(calls[n].conversation_id, n)
        \/ InQueue("default", n)

(***************************************************************************)
(* Properties of PersistentMessageStore                                    *)
(***************************************************************************)
\* the conversations a PersistentMessageStore newly constructed over a
\* JsonFileStorage of directory f holds after initialize()
RestartedConversations(f) ==
    PersistentMessageStore_initialize([c |-> <<>>, f |-> f, u |-> 0, s |-> {}]).c

\* C11: the persistent store survives a restart.  After create_conversation,
\* add_message and add_action on a PersistentMessageStore, a new
\* PersistentMessageStore initialized over the same directory holds every
\* conversation of the store with the same id, title, messages and actions.
C11_SurvivesRestart ==
    kind = "persistent" =>
        \A id \in DOMAIN conversations :
            /\ id \in DOMAIN RestartedConversations(fs)
            /\ RestartedConversations(fs)[id] = conversations[id]

\* the conversation Conversation(**conv_data) builds from the dump of c
Reconstructed(c) == Conversation(c.id, c.title, c.messages, c.actions)

\* stores a and b hold the same ids, and under each id the same conversation
SameStore(a, b) ==
    /\ DOMAIN a = DOMAIN b
    /\ \A id \in DOMAIN a : a[id] = b[id]

\* the index file and a file for every conversation of store s exist
FilesExist(f, s) ==
    /\ exists(f, store_file)
    /\ \A id \in DOMAIN s : exists(f, conv_file(id))

\* load_store() has returned a store
ReturnedStore(ret) == ~ret.raised /\ "store" \in DOMAIN ret.value

\* C12 as stated: whole-store round trip.  load_store() right after
\* save_store(s) returns a store with the ids of s and, under each id, the
\* title, messages and actions s holds; the index file and a file per
\* conversation exist.
C12_StoreRoundTrip ==
    [][(LoadStore /\ last.op = "save_store") =>
        /\ ReturnedStore(last'.ret)
        /\ SameStore(last'.ret.value.store, conversations)
        /\ FilesExist(fs', conversations)
    ]_vars

\* C12 amended: the round trip holds when s holds a conversation or the
\* directory holds no conversation file; a title that is empty in s comes
\* back as the default label of the id.
C12_StoreRoundTripAmended ==
    [][(/\ LoadStore
        /\ last.op = "save_store"
        /\ (DOMAIN conversations # {} \/ JsonFileStorage_list_conversation_ids(fs) = {})) =>
        /\ ReturnedStore(last'.ret)
        /\ SameStore(last'.ret.value.store,
                     [id \in DOMAIN conversations |-> Reconstructed(conversations[id])])
        /\ FilesExist(fs', conversations)
    ]_vars

\* C12 witness: load_store() has returned the two conversations of the store,
\* one with a message and an action, the other with a title that was assigned
\* to the object and can have reached its file only through save_store
C12_Witness ==
    /\ last.op = "load_store"
    /\ ReturnedStore(last.ret)
    /\ SameStore(last.ret.value.store, conversations)
    /\ DOMAIN conversations = PersistIds
    /\ \E id \in PersistIds :
        /\ conversations[id].messages # <<>>
        /\ conversations[id].actions # <<>>
    /\ \E id \in PersistIds :
        /\ conversations[id].title = "u"
        /\ conversations[id].messages = <<>>
        /\ conversations[id].actions = <<>>

\* the file of conversation id holds this title
TitleOnDisk(f, id, title) ==
    /\ exists(f, conv_file(id))
    /\ Persisted(f, id).ok
    /\ Persisted(f, id).value.title = title

\* the conversation object holds a title that was assigned to it directly and
\* that is not the one in its file
TitleUnsaved(id) ==
    /\ conversations[id].title \in AssignedTitles
    /\ ~TitleOnDisk(fs, id, conversations[id].title)

\* add_message or add_action on the conversation id
AppendsTo(id) ==
    \/ \E m \in MessageArgs : AddMessage(id, m[1], m[2])
    \/ \E a \in ActionArgs : AddAction(id, a[1], a[2])

\* C13 as stated: explicit save.  A title assigned to a conversation object is
\* not in its file until save() is called, and after save() a new store
\* initialized over the directory holds every conversation of the store with
\* the changed value.
C13_ExplicitSave ==
    [][/\ \A id \in DOMAIN conversations :
            (TitleUnsaved(id) /\ ~SaveStore) =>
                ~TitleOnDisk(fs', id, conversations[id].title)
       /\ SaveStore =>
            \A id \in DOMAIN conversations :
                /\ id \in DOMAIN RestartedConversations(fs')
                /\ RestartedConversations(fs')[id] = conversations[id]
    ]_vars

\* C13 amended: the assignment itself writes nothing; the assigned title
\* reaches the file only with save() or with an add_message / add_action on
\* that conversation; after save() a new store holds every conversation of the
\* store as it is in memory, an empty title read back as the default label.
C13_ExplicitSaveAmended ==
    [][/\ \A id \in PersistIds, title \in AssignedTitles :
            AssignTitle(id, title) => fs' = fs
       /\ \A id \in DOMAIN conversations :
            (TitleUnsaved(id) /\ ~SaveStore /\ ~AppendsTo(id)) =>
                ~TitleOnDisk(fs', id, conversations[id].title)
       /\ SaveStore =>
            \A id \in DOMAIN conversations :
                /\ id \in DOMAIN RestartedConversations(fs')
                /\ RestartedConversations(fs')[id] = Reconstructed(conversations[id])
    ]_vars

\* C13 witness: save() has run and the file of a conversation holds a title
\* that was assigned to the object, beside a second conversation
C13_Witness ==
    /\ last.op = "save_store"
    /\ Cardinality(DOMAIN conversations) = 2
    /\ \E id \in DOMAIN conversations :
        /\ conversations[id].title \in AssignedTitles
        /\ TitleOnDisk(fs, id, conversations[id].title)
        /\ RestartedConversations(fs)[id] = Reconstructed(conversations[id])

(***************************************************************************)
(* Properties of the file-backed MessageStore                              *)
(***************************************************************************)
\* the file of conversation id holds the serialization of conversation c
FileHolds(f, id, c) ==
    /\ exists(f, conv_file(id))
    /\ f[conv_file(id)] = json_dump_conversation(c)

\* C14: write-through.  After every create_conversation, add_message and
\* add_action of a file-backed MessageStore the file of every conversation of
\* the store, the affected one included, is the serialization of what the
\* store holds in memory, and the file of every conversation the call did not
\* change is the file it was before.
C14_WriteThrough ==
    [][(kind = "file" /\ StoreCall) =>
        /\ \A id \in DOMAIN conversations' : FileHolds(fs', id, conversations'[id])
        /\ \A id \in DOMAIN conversations :
              conversations'[id] = conversations[id] =>
                  fs'[conv_file(id)] = fs[conv_file(id)]
    ]_vars

\* C14 witness: add_action has run on a file-backed store that holds two
\* conversations; the one with a message and an action and the other one are
\* both in their files as they are in memory
C14_Witness ==
    /\ kind = "file"
    /\ last.op = "add_action"
    /\ Cardinality(DOMAIN conversations) = 2
    /\ \A id \in DOMAIN conversations : FileHolds(fs, id, conversations[id])
    /\ \E id \in DOMAIN conversations :
        /\ conversations[id].messages # <<>>
        /\ conversations[id].actions # <<>>

(***************************************************************************)
(* Properties of MessageStore.__init__                                     *)
(***************************************************************************)
\* C15: MessageStore(save_dir=d, backend_type="memory") raises a configuration
\* error and no store is created: the store and the directory stay as they
\* were.
C15_ConflictRejected ==
    [][\A save_dir \in SaveDirArgs \ {None} :
        NewMessageStore(save_dir, "memory") =>
            /\ last'.ret.raised
            /\ UNCHANGED <<fs, conversations, kind>>
    ]_vars

(***************************************************************************)
(* Properties of send_update                                               *)
(***************************************************************************)
\* a call of send_update for conversation id with update_data, through the
\* server or through the agent
SendsUpdate(id, update_data) ==
    SendUpdate(id, update_data) \/ AgentSendUpdate(id, update_data)

\* C16: send_update(c, payload) with a non-empty payload puts exactly one item
\* on the queue of conversation c, which exists afterwards, and exactly one
\* item on the default queue; every other queue and every connection set is
\* what it was.
C16_EnqueuesOnce ==
    [][\A id \in UpdateConversationIds, i \in DOMAIN UpdateArgs :
        (DOMAIN UpdateArgs[i] # {} /\ SendsUpdate(id, UpdateArgs[i])) =>
            /\ id \in DOMAIN update_queues'
            /\ Len(update_queues'[id]) =
                  (IF id \in DOMAIN update_queues THEN Len(update_queues[id]) ELSE 0) + 1
            /\ Len(update_queues'["default"]) = Len(update_queues["default"]) + 1
            /\ \A key \in DOMAIN update_queues' \ {id, "default"} :
                  /\ key \in DOMAIN update_queues
                  /\ update_queues'[key] = update_queues[key]
            /\ active_connections' = active_connections
    ]_vars

\* C17: stamping.  Every item a call of send_update places on a queue,
\* through the agent or directly through the server, carries the
\* conversation_id argument as its conversation_id, whatever the payload had,
\* and carries an id: the payload's own when it had one, a generated one
\* otherwise.
C17_Stamped ==
    [][\A id \in UpdateConversationIds, i \in DOMAIN UpdateArgs :
        SendsUpdate(id, UpdateArgs[i]) =>
            \A key \in DOMAIN update_queues' :
                \A k \in DOMAIN update_queues'[key] :
                    LET item == update_queues'[key][k]
                    IN  item.n = Len(calls') =>
                            /\ item.message["conversation_id"] = id
                            /\ "id" \in DOMAIN item.message
                            /\ "id" \in DOMAIN UpdateArgs[i] =>
                                    item.message["id"] = UpdateArgs[i]["id"]
    ]_vars

\* C18: a call of send_update with an empty payload, through the agent or
\* directly through the server, is a no-op: no queue is created, no item is
\* put on any queue and no connection set changes.
C18_EmptyIsNoOp ==
    [][\A id \in UpdateConversationIds :
        SendsUpdate(id, UpdateArgs[1]) =>
            /\ DOMAIN update_queues' = DOMAIN update_queues
            /\ \A key \in DOMAIN update_queues : update_queues'[key] = update_queues[key]
            /\ active_connections' = active_connections
    ]_vars

(***************************************************************************)
(* Properties of the websocket handler                                     *)
(***************************************************************************)
\* C19: cleanup on disconnect.  Once the handler of a websocket has finished,
\* whether the client left before, during or after the subscription
\* handshake, the websocket is in no connection set: not in the default set
\* and not in the set of the conversation it subscribed to.
C19_CleanedUp ==
    \A w \in WebSockets :
        ws_state[w] = "closed" =>
            \A key \in DOMAIN active_connections : w \notin active_connections[key]

\* C19 witness: a websocket that subscribed to a conversation and was
\* acknowledged has gone, one that left during its handshake has gone too, and
\* the set of the conversation exists
C19_Witness ==
    /\ "a" \in DOMAIN active_connections
    /\ ws_state["w1"] = "closed"
    /\ ws_conversation_id["w1"] = "a"
    /\ sent["w1"] # <<>>
    /\ ws_state["w2"] = "closed"
    /\ ws_conversation_id["w2"] = "a"
    /\ sent["w2"] = <<>>

\* C20: the subscription handshake.  From accept on, as long as its handler
\* runs, a websocket is in the default set; until its handshake is over it is
\* in no other set and has been sent nothing.  A handshake whose first message
\* names a non-empty conversation_id puts the websocket in the set of that
\* conversation and sends it the subscription_ack of that conversation as the
\* first thing it is ever sent; any other handshake (no message in time, no
\* JSON, no or an empty conversation_id) puts it in no conversation's set and
\* sends no ack.  No update is ever sent to a websocket before its ack.
C20_Handshake ==
    [][\A w \in WebSockets :
        /\ ws_state'[w] \in {"accepted", "polling"} =>
                w \in active_connections'["default"]
        /\ ws_state'[w] = "accepted" =>
                /\ sent'[w] = <<>>
                /\ \A key \in DOMAIN active_connections' \ {"default"} :
                        w \notin active_connections'[key]
        /\ \A id \in SubscribeArgs :
              Subscribe(w, id) =>
                IF Falsy(id)
                THEN /\ sent'[w] = <<>>
                     /\ \A key \in DOMAIN active_connections' \ {"default"} :
                            w \notin active_connections'[key]
                ELSE /\ id \in DOMAIN active_connections'
                     /\ w \in active_connections'[id]
                     /\ sent'[w] = << Queued(0, [type |-> "subscription_ack",
                                                 conversation_id |-> id]) >>
        /\ \A k \in DOMAIN sent'[w] : sent'[w][k].n = 0 => k = 1
    ]_vars

\* C20 witness: one websocket subscribed to a conversation, was acknowledged
\* and then sent an update; another one named no conversation, is in the
\* default set alone and was sent an update without any ack
C20_Witness ==
    /\ ws_state["w1"] = "polling"
    /\ ws_conversation_id["w1"] = "a"
    /\ "w1" \in active_connections["a"] \cap active_connections["default"]
    /\ Len(sent["w1"]) = 2
    /\ sent["w1"][1].message["type"] = "subscription_ack"
    /\ sent["w1"][2].message["type"] = "progress"
    /\ ws_state["w2"] = "polling"
    /\ Falsy(ws_conversation_id["w2"])
    /\ "w2" \in active_connections["default"] \ active_connections["a"]
    /\ Len(sent["w2"]) = 1
    /\ sent["w2"][1].message["type"] = "progress"

(***************************************************************************)
(* Properties of the objects                                               *)
(***************************************************************************)
\* C24: default title.  Every conversation constructed without a title
\* (absent, None or empty) is titled "Conversation " followed by the first 8
\* characters of its own id, the whole id when it is shorter: the
\* conversations a store creates, under an id the caller gives or a generated
\* one, and the conversations constructed directly, with or without an id.
C24_DefaultTitle ==
    /\ \A id \in DOMAIN conversations :
          conversations[id].title =
              "Conversation " \o SubSeq(conversations[id].id, 1,
                                        Min(8, Len(conversations[id].id)))
    /\ \A id \in {None, "a", "0123456789"}, title \in {None, ""} :
          (last.op = "Conversation" /\ last.ret.value = Conversation_init(id, title, 0)) =>
              last.ret.value.title =
                  "Conversation " \o SubSeq(last.ret.value.id, 1,
                                            Min(8, Len(last.ret.value.id)))

\* C28: to_dict/from_dict round trip.  For every store reached by
\* create_conversation, add_message and add_action, whatever its backend,
\* MessageStore.from_dict(s.to_dict()) holds the ids of s and under each id
\* the same title, the same messages in order and the same actions in order;
\* building it leaves the directory of s as it was.
C28_DictRoundTrip ==
    [][FromDict =>
        /\ SameStore(last'.ret.value.store, conversations)
        /\ fs' = fs
    ]_vars

\* C28 witness: from_dict(to_dict()) has been built from a file-backed store
\* of two conversations, one under a generated id, one holding a message and
\* an action
C28_Witness ==
    /\ last.op = "from_dict"
    /\ kind = "file"
    /\ DOMAIN conversations = {"a", uuid4(1)}
    /\ conversations["a"].messages # <<>>
    /\ conversations["a"].actions # <<>>
    /\ SameStore(last.ret.value.store, conversations)

(***************************************************************************)
(* Properties of load_store                                                *)
(***************************************************************************)
\* C25: the fallback of load_store repairs the index.  When a store of either
\* class is constructed over a directory whose index (after initialize) lists
\* no conversation that loads while conversation files that load exist, the
\* store holds every conversation whose file loads, and the index afterwards
\* lists exactly those ids.
C25_FallbackRepairs ==
    [][\A k \in Kinds :
        Construct(k) =>
            LET f1 == IF k = "file" THEN FileStorageBackend_initialize(fs)
                      ELSE JsonFileStorage_initialize(fs)
                store_index == json_load_index(f1[store_file])
                files == {id \in FileStorageBackend_list_conversation_ids(f1) :
                            Persisted(f1, id).ok}
            IN  (store_index.ok /\ Range(store_index.value) \cap files = {} /\ files # {}) =>
                    /\ DOMAIN conversations' = files
                    /\ json_load_index(fs'[store_file]).ok
                    /\ Range(json_load_index(fs'[store_file]).value) = files
    ]_vars

\* C26: recovery from a stale or missing index.  When a store of either class
\* is constructed over a directory whose index is missing, or lists only some
\* of the conversations that have a well-formed file, the store holds every
\* conversation that has a well-formed file.
C26_StaleIndexRecovered ==
    [][\A k \in Kinds :
        Construct(k) =>
            LET files == {id \in FileStorageBackend_list_conversation_ids(fs) :
                            Persisted(fs, id).ok}
                stale == \/ ~exists(fs, store_file)
                         \/ /\ json_load_index(fs[store_file]).ok
                            /\ \E id \in files :
                                  id \notin Range(json_load_index(fs[store_file]).value)
            IN  stale => DOMAIN conversations' = files
    ]_vars

\* C27 as stated: load failures are never raised.  Whatever the index file
\* (well-formed or malformed JSON) and the conversation files (absent,
\* well-formed or malformed JSON) are, load_conversation raises nothing, and a
\* store of either class constructed over the directory holds the
\* conversations whose files load, the rest being absent.
C27_LoadNeverRaises ==
    [][\A k \in Kinds :
        /\ \A id \in KnownIds : LoadConversation(k, id) => ~last'.ret.raised
        /\ Construct(k) =>
              DOMAIN conversations' =
                  {id \in FileStorageBackend_list_conversation_ids(fs) : Persisted(fs, id).ok}
    ]_vars

\* C27 amended: load_conversation raises nothing and returns None for a file
\* that is absent or malformed.  A store of either class constructed over the
\* directory holds only conversations whose files load; it holds none when
\* the index is malformed, whatever the conversation files are; when the
\* index is well-formed it holds every conversation the index lists whose
\* file loads, a listed conversation whose file is absent or malformed being
\* left out.
C27_LoadNeverRaisesAmended ==
    [][\A k \in Kinds :
        /\ \A id \in KnownIds :
              LoadConversation(k, id) =>
                  /\ ~last'.ret.raised
                  /\ (~exists(fs, conv_file(id)) \/ ~Persisted(fs, id).ok) =>
                        last'.ret = Returned(NoneResult)
        /\ Construct(k) =>
              LET files == {id \in FileStorageBackend_list_conversation_ids(fs) :
                              Persisted(fs, id).ok}
                  malformed == exists(fs, store_file) /\ ~json_load_index(fs[store_file]).ok
              IN  /\ DOMAIN conversations' \subseteq files
                  /\ malformed => DOMAIN conversations' = {}
                  /\ (exists(fs, store_file) /\ ~malformed) =>
                        Range(json_load_index(fs[store_file]).value) \cap files
                            \subseteq DOMAIN conversations'
    ]_vars

\* C27 witness: a store was constructed over a directory whose well-formed
\* index lists two conversations, the file of one of them malformed; it holds
\* the other one alone
C27_Witness ==
    /\ last.op = "construct"
    /\ IndexLists(fs)
    /\ Cardinality(DOMAIN conversations) = 1
    /\ \E id \in Range(json_load_index(fs[store_file]).value) :
          /\ exists(fs, conv_file(id))
          /\ ~Persisted(fs, id).ok
          /\ id \notin DOMAIN conversations

(***************************************************************************)
(* Properties of the end of a connection                                   *)
(***************************************************************************)
\* C21: delivery loop termination.  After the client of a connection has
\* disconnected, the delivery loop of the connection eventually stops,
\* whatever the queue of its conversation and the default queue hold, and
\* from the disconnect on nothing further is sent on the connection.
C21_LoopTerminates ==
    /\ \A w \in WebSockets : (ws_state[w] = "leaving") ~> (ws_state[w] = "closed")
    /\ [][\A w \in WebSockets :
            ws_state[w] \in {"leaving", "closed"} =>
                /\ sent'[w] = sent[w]
                /\ ws_state'[w] \in {"leaving", "closed"}]_vars

\* C21 witness: a connection bound to a conversation has stopped while an
\* update for it was still on the queue of its conversation and on the
\* default queue
C21_Witness ==
    /\ ws_state["w1"] = "closed"
    /\ ws_conversation_id["w1"] = "a"
    /\ sent["w1"] = << Queued(0, [type |-> "subscription_ack", conversation_id |-> "a"]) >>
    /\ update_queues["a"] # <<>>
    /\ update_queues["default"] # <<>>

\* the last message of conversation c is (role, content), in memory and in the
\* file of c
LastMessageIs(convs, f, c, role, content) ==
    /\ c \in DOMAIN convs
    /\ convs[c].messages # <<>>
    /\ convs[c].messages[Len(convs[c].messages)] = Message(content, role)
    /\ exists(f, conv_file(c))
    /\ Persisted(f, c).ok
    /\ Persisted(f, c).value.messages = convs[c].messages

\* C22: handler failure keeps the user message.  When _handle_message raises
\* during POST /api/message the request ends with status 500 and an error
\* payload, the user message appended before the failure is still the last
\* message of the conversation in memory and in its file, and the step appends
\* nothing to any conversation.
C22_FailureKeepsUserMessage ==
    [][(HandlerRaises /\ request.via = "POST") =>
        /\ ~last'.ret.raised
        /\ last'.ret.value.status_code = 500
        /\ "error" \in DOMAIN last'.ret.value
        /\ LastMessageIs(conversations', fs', request.conversation_id,
                         "user", request.message)
        /\ \A id \in DOMAIN conversations' :
              conversations'[id].messages = conversations[id].messages
        /\ DOMAIN conversations' = DOMAIN conversations
    ]_vars

\* C22 witness: a POST for a conversation that already held a message failed
\* in the handler; the answer is 500 and the conversation ends with the user
\* message of the request
C22_Witness ==
    /\ last.op = "POST"
    /\ ~last.ret.raised
    /\ last.ret.value.status_code = 500
    /\ last.id \in DOMAIN conversations
    /\ Len(conversations[last.id].messages) = 2
    /\ LastMessageIs(conversations, fs, last.id, "user", "hi")

\* C23: request validation.  A POST /api/message whose conversation_id or
\* message is missing or empty is answered with status 400 and an error
\* payload, the agent is not invoked, and the store in memory, the directory
\* and every update queue are as before.
C23_Validation ==
    [][\A conversation_id \in {"a", "b", "", None}, message \in {"hi", "", None} :
          (PostMessage(conversation_id, message)
             /\ (Falsy(conversation_id) \/ Falsy(message))) =>
            /\ request'.pc = "idle"
            /\ conversations' = conversations
            /\ fs' = fs
            /\ update_queues' = update_queues
            /\ ~last'.ret.raised
            /\ last'.ret.value.status_code = 400
            /\ "error" \in DOMAIN last'.ret.value
    ]_vars

\* C23 witness: a store that holds a message answered 400
C23_Witness ==
    /\ last.op = "POST"
    /\ ~last.ret.raised
    /\ last.ret.value.status_code = 400
    /\ request.pc = "idle"
    /\ Items(conversations) > 0

\* C30: on_message ordering.  When _handle_message is invoked for
\* on_message(c, m) the last message of conversation c is (user, m), in
\* memory and in its file; when on_message returns, the last two messages of
\* c are (user, m) and (assistant, response).
C30_Ordering ==
    [][/\ (request.pc = "idle" /\ request'.pc = "handling") =>
              LastMessageIs(conversations', fs', request'.conversation_id,
                            "user", request'.message)
       /\ \A response \in {"yo"} : HandlerReturns(response) =>
              LET c == request.conversation_id
                  n == Len(conversations'[c].messages)
              IN  /\ c \in DOMAIN conversations'
                  /\ n >= 2
                  /\ conversations'[c].messages[n - 1] = Message(request.message, "user")
                  /\ conversations'[c].messages[n] = Message(response, "assistant")
    ]_vars

\* C29: last write wins on concurrent appends.  When both stores have appended
\* to conversation "a" and neither is inside add_message, the file of "a" is
\* the whole of a state one of them wrote: it decodes, and its messages are
\* the messages one of the two stores held after one of its appends.
C29_LastWriteWins ==
    (\A s \in Writers : writers[s].pc = "idle" /\ writers[s].conv.messages # <<>>) =>
        /\ exists(fs, conv_file("a"))
        /\ Persisted(fs, "a").ok
        /\ \E s \in Writers : \E n \in 1..Len(writers[s].conv.messages) :
              Persisted(fs, "a").value.messages = SubSeq(writers[s].conv.messages, 1, n)

\* C31: atomic index write.  At every step of a save, a reader that opens the
\* index at its final path finds no file or a complete index: whenever
\* message_store.json exists, it decodes.
C31_IndexNeverPartial ==
    exists(fs, store_file) => json_load_index(fs[store_file]).ok

\* C32: unbound connections.  A connection whose handshake brings no
\* conversation_id (timeout, invalid JSON, no such key) gets its delivery
\* loop started without an acknowledgment and without being registered under
\* a conversation; it stays unbound, is never sent a subscription_ack, and
\* every item its loop takes from the default queue is sent to it, whatever
\* the conversation_id of the item.
C32_Unbound ==
    [][\A w \in WebSockets :
          /\ Subscribe(w, None) =>
                /\ ws_state'[w] = "polling"
                /\ sent'[w] = sent[w]
                /\ active_connections' = active_connections
                /\ update_queues' = update_queues
          /\ (ws_state[w] = "polling" /\ ws_conversation_id[w] = None) =>
                /\ ws_conversation_id'[w] = None
                /\ \A i \in DOMAIN sent'[w] :
                      sent'[w][i].message["type"] # "subscription_ack"
                /\ \A id \in DOMAIN active_connections' \ {"default"} :
                      w \notin active_connections'[id]
                /\ (ProcessQueue(w) /\ update_queues["default"] # <<>>) =>
                      /\ update_queues'["default"] = Tail(update_queues["default"])
                      /\ sent'[w] = Append(sent[w], Head(update_queues["default"]))
    ]_vars

\* C32 witness: a connection that went through the handshake without a
\* conversation_id has been sent two updates of two different conversations
C32_Witness ==
    \E w \in WebSockets :
        /\ ws_state[w] = "polling"
        /\ ws_conversation_id[w] = None
        /\ Len(sent[w]) = 2
        /\ sent[w][1].message["conversation_id"] = "a"
        /\ sent[w][2].message["conversation_id"] = "b"

\* C33: at-most-once delivery.  A connection that is bound to a conversation
\* is sent each update at most once: no two items it was sent come from the
\* same call of send_update.
C33_AtMostOnce ==
    \A w \in WebSockets :
        ~Falsy(ws_conversation_id[w]) =>
            \A i, j \in DOMAIN sent[w] :
                (i < j /\ sent[w][i].n > 0) => sent[w][i].n # sent[w][j].n

\* C34: no silent loss on dequeue.  Whenever an iteration of a delivery loop
\* removes an item from the default queue, the item is sent to the loop's
\* connection.
C34_NoSilentLoss ==
    [][\A w \in WebSockets :
          (ProcessQueue(w) /\ update_queues'["default"] # update_queues["default"]) =>
              /\ sent'[w] # sent[w]
              /\ sent'[w][Len(sent'[w])] = Head(update_queues["default"])
    ]_vars

\* C35: the index covers the directory.  After any sequence of completed
\* save_conversation and save_store calls, by one store object or by several
\* one after another, every id that has a file under conversations/ is
\* listed in the index file.
C35_IndexCoversDirectory ==
    /\ exists(fs, store_file)
    /\ json_load_index(fs[store_file]).ok
    /\ \A p \in DOMAIN fs :
          (p.dir = "conversations" /\ p.suffix = ".json") =>
              p.name \in Range(json_load_index(fs[store_file]).value)

\* C36: concurrent index updates keep both ids.  When save_conversation
\* calls of two stores for different conversations overlap and all have
\* completed, the index lists the id of every conversation whose file was
\* put in place.
C36_BothIdsListed ==
    (wpc = "idle" /\ published # {}) =>
        /\ exists(fs, store_file)
        /\ json_load_index(fs[store_file]).ok
        /\ \A job \in published : job.id \in Range(json_load_index(fs[store_file]).value)

\* C37: updates are held back while a request is handled.  From the call of
\* on_message by handle_message to the return of the handler nothing is sent
\* to any viewer: the updates the agent enqueues meanwhile stay in the
\* queues, and so do older ones.
C37_HeldBack ==
    [][request.pc = "handling" =>
          /\ sent' = sent
          /\ \A id \in DOMAIN update_queues :
                /\ id \in DOMAIN update_queues'
                /\ IsPrefix(update_queues[id], update_queues'[id])
    ]_vars

\* C37 witness: an update the agent enqueued while it handled a request has
\* been sent to a viewer after the request was answered
C37_Witness ==
    /\ request.pc = "idle"
    /\ last.op = "POST"
    /\ ~last.ret.raised
    /\ last.ret.value.status_code = 200
    /\ \E w \in WebSockets : \E i \in DOMAIN sent[w] :
          "id" \in DOMAIN sent[w][i].message

\* C38: undelivered updates outlive their viewers.  A disconnect takes no item
\* from any queue; a connection bound to c is sent the oldest item of c's
\* queue first, so ahead of every update sent after it bound; and an update
\* that was enqueued while no connection was bound to c goes to the next
\* connection that binds to c: it is not sent to a connection w while another
\* connection, which bound to c after the update was enqueued and before w
\* did, still has its loop running.  (c is a conversation, not the name
\* "default".)
C38_OutliveViewers ==
    [][\A w \in WebSockets :
          /\ Disconnect(w) => update_queues' = update_queues
          /\ LET c == ws_conversation_id[w]
             IN  (/\ ProcessQueue(w)
                  /\ ~Falsy(c)
                  /\ c # "default"
                  /\ c \in DOMAIN update_queues
                  /\ update_queues[c] # <<>>) =>
                    LET item == Head(update_queues[c])
                    IN  /\ sent'[w] = Append(sent[w], item)
                        /\ update_queues'[c] = Tail(update_queues[c])
                        /\ calls[item.n].bound = {} =>
                              ~\E v \in WebSockets \ {w} : \E m \in DOMAIN calls :
                                  /\ ws_state[v] = "polling"
                                  /\ ws_conversation_id[v] = c
                                  /\ m > item.n
                                  /\ calls[m].conversation_id = c
                                  /\ v \in calls[m].bound
                                  /\ w \notin calls[m].bound
    ]_vars

============================================================================
